---- MODULE Spec2Model ----
(***************************************************************************)
(* Call-lifecycle state machine of the outbound voice-call system.         *)
(*                                                                         *)
(*   Call Registry        server/services/callMonitor.js  (class           *)
(*                        CallMonitor, lines 4-476)                        *)
(*   Call controller      server/services/callMonitor.js  (lines 477-1316, *)
(*                        createCall, endCall, updateCallStatus, ...)      *)
(*   Webhook Reconciler   server/controllers/campaignController.js         *)
(*                        (lines 1017-1905, handleVapiWebhook and its      *)
(*                        handlers)                                        *)
(*   Campaign executor    server/controllers/campaignController.js         *)
(*                        (lines 1-481) over the shared store              *)
(*                        (RedisService, unnamed/part_005)                 *)
(*                                                                         *)
(* JavaScript objects are references: a handler that keeps the record it   *)
(* fetched with getCall() and later passes it to updateCall() passes the   *)
(* OLD field values of every scalar field (status, ...), while arrays      *)
(* (transcript, statusHistory) are shared between the old and the new      *)
(* record.  The operators below follow that.                               *)
(***************************************************************************)
EXTENDS Integers, Sequences, FiniteSets, TLC

\* ------------------------------------------------------------------ bounds
MaxCalls == 2
MaxFollowed == 1
MaxHist == 3
MaxTranscript == 3
MaxRecord == 4
MaxCampaigns == 2
MaxTasks == 2
MaxStat == 2
MaxContacts == 5
BatchLimit == 2
MaxConferences == 2
MaxSockets == 5
MaxTwilio == 1

\* ------------------------------------------------------- program constants
NationalLen == 10
TranscriptCap == 100
maxRetries == 3

\* the calls a single-call specification follows with events
FollowedIds == 1..MaxFollowed

CampaignIds == 1..MaxCampaigns

\* ---------------------------------------------------------------- variables
VARIABLES
    activeCalls,          \* CallMonitor.activeCalls: call id -> call record
    callListeners,        \* CallMonitor.callListeners: the call ids that are keys
    activeCallsByPhone,   \* callController: E.164 number -> call id
    issued,               \* calls the voice-AI provider created: id -> number
    inflight,             \* requests suspended at an await (provider round trip)
    timers,               \* pending setTimeout callbacks
    bcast,                \* broadcast types emitted by the last step
    last,                 \* the last operation, its input and its reply
    campaigns,            \* shared store, campaign:{id}: id -> campaign record
    activeSet,            \* shared store, the set active_campaigns
    queue,                \* shared store, campaign_queue:{id}: id -> contacts
    campaignCalls,        \* shared store, campaign_calls:{id}: id -> (call id -> result)
    tasks,                \* campaign-side async functions suspended at an await
    conferences,          \* shared store, conference:{id}: id -> conference record
    audioStreams,         \* CallMonitor.audioStreams: call id -> WebSocket
    sockets,              \* the WebSockets setupAudioStreamWithRetry created
    retryTimers           \* pending setTimeout callbacks of handleAudioStreamRetry

registryVars == <<activeCalls, callListeners, activeCallsByPhone, issued, inflight, timers>>

storeVars == <<campaigns, activeSet, queue, campaignCalls>>

audioVars == <<audioStreams, sockets, retryTimers>>

vars == <<activeCalls, callListeners, activeCallsByPhone, issued, inflight,
          timers, bcast, last, campaigns, activeSet, queue, campaignCalls, tasks,
          conferences, audioStreams, sockets, retryTimers>>

\* ------------------------------------------------------------------- maps
MapSet(m, k, v) == [x \in (DOMAIN m) \cup {k} |-> IF x = k THEN v ELSE m[x]]

MapDelete(m, k) == [x \in (DOMAIN m) \ {k} |-> m[x]]

EmptyMap == [x \in {} |-> 0]

\* bags (a task may be pending more than once): element -> count >= 1
BagAdd(b, e) == MapSet(b, e, IF e \in DOMAIN b THEN b[e] + 1 ELSE 1)

BagRemove(b, e) == IF b[e] = 1 THEN MapDelete(b, e) ELSE MapSet(b, e, b[e] - 1)

BagSize(b) ==
    LET RECURSIVE Sum(_)
        Sum(S) == IF S = {} THEN 0
                  ELSE LET e == CHOOSE x \in S : TRUE IN b[e] + Sum(S \ {e})
    IN  Sum(DOMAIN b)

RECURSIVE BagAddAll(_, _)
BagAddAll(b, seq) == IF seq = <<>> THEN b ELSE BagAddAll(BagAdd(b, Head(seq)), Tail(seq))

\* ------------------------------------------------------------ phone numbers
\* A phone number is a sequence of characters.
Digits == {"0", "1", "2", "3", "4", "5", "6", "7", "8", "9"}

NationalA == <<"5", "5", "5", "0", "1", "0", "0", "0", "0", "1">>

DashedA == <<"5", "5", "5", "-", "0", "1", "0", "-", "0", "0", "0", "1">>

ShortPhone == <<"5", "5", "5", "0", "1">>

Null == <<>>

\* validators.formatToE164(phone, defaultCountryCode = '1')
formatToE164(phone) ==
    LET cleaned == SelectSeq(phone, LAMBDA ch : ch \in Digits)
    IN  IF Len(cleaned) = NationalLen THEN <<"+", "1">> \o cleaned
        ELSE IF Len(cleaned) = NationalLen + 1 /\ cleaned[1] = "1"
             THEN <<"+">> \o cleaned
        ELSE IF Len(cleaned) > NationalLen THEN <<"+">> \o cleaned
        ELSE Null

\* the phone_number values a request may carry, formatted: one number written
\* four ways and a number that is too short
E164Phones ==
    { formatToE164(p) : p \in { NationalA, <<"1">> \o NationalA, <<"+", "1">> \o NationalA,
                                DashedA, ShortPhone } } \ {Null}

\* the contacts of a campaign: national numbers that differ in their last digit
Contact(i) ==
    LET ContactDigits == <<"1", "2", "3", "4", "5", "6", "7", "8", "9">>
    IN  <<"5", "5", "5", "0", "1", "0", "0", "0", "0", ContactDigits[i]>>

ContactList(n) == [i \in 1..n |-> Contact(i)]

\* ----------------------------------------------------------------- statuses
Terminal == {"ended", "failed", "no-answer"}

\* -------------------------------------------------------------- CallMonitor
\* addCall(callData): the record stored for a new (or re-registered) call
NewCall(status, number) ==
    [ status |-> status,
      number |-> number,
      answeredAt |-> FALSE,
      transcript |-> <<>>,
      statusHistory |-> << [from |-> "call_creation", to |-> status] >>,
      hasActiveListeners |-> FALSE,
      listenerCount |-> 0 ]

addCall(calls, id, status, number) == MapSet(calls, id, NewCall(status, number))

\* updateCall(callId, updates): updates is a record holding the fields given
updateCall(calls, id, updates) ==
    IF id \notin DOMAIN calls THEN calls
    ELSE LET call == calls[id]
             changed == "status" \in DOMAIN updates /\ updates.status # call.status
             hist == IF changed
                     THEN Append(call.statusHistory,
                                 [from |-> call.status, to |-> updates.status])
                     ELSE call.statusHistory
             merged == updates @@ call
         IN  MapSet(calls, id, [merged EXCEPT !.statusHistory = hist])

\* The handlers below run to completion within one event turn.  Each maps a
\* world w = [calls, listeners, byPhone, timers, bcast, spawn] to the world it
\* leaves: the registry, the listener map's keys, the phone-dedup map, the
\* pending timers, the broadcasts emitted so far in this turn and the
\* campaign-statistics updates started (and not awaited) in this turn.
Timer(kind, id) == [kind |-> kind, id |-> id, mc |-> 0]

\* removeCall(callId, force): does the safety check let the removal through
removeCallAllowed(calls, id, force) ==
    \/ id \notin DOMAIN calls
    \/ force
    \/ /\ calls[id].status \notin {"ringing", "in-progress", "answered"}
       /\ Len(calls[id].transcript) = 0

\* removeCall(callId, force): the world it leaves (its return value is
\* removeCallAllowed)
removeCall(w, id, force) ==
    IF removeCallAllowed(w.calls, id, force)
    THEN [w EXCEPT !.calls = MapDelete(@, id), !.listeners = @ \ {id}]
    ELSE w

\* callController.cleanupPhoneTracking(callId, phoneNumber)
cleanupPhoneTracking(byPhone, id, number) ==
    IF number \in DOMAIN byPhone /\ byPhone[number] = id
    THEN MapDelete(byPhone, number)
    ELSE byPhone

\* ------------------------------------------------------- webhook reconciler
\* the customer number a webhook payload carries for call id: the number the
\* provider dialled
PayloadNumber(id) == issued[id]

handleCallAnswered(w, id) ==
    [w EXCEPT !.calls = updateCall(@, id, [status |-> "in-progress", answeredAt |-> TRUE]),
              !.bcast = @ \cup {"call_answered"}]

handleCallRinging(w, id) ==
    [w EXCEPT !.calls = updateCall(@, id, [status |-> "ringing"]),
              !.bcast = @ \cup {"call_ringing"}]

\* meta: the payload carries call.customer.metadata.campaignId
handleCallEnded(w, id, meta) ==
    IF id \in DOMAIN w.calls /\ w.calls[id].hasActiveListeners
    THEN w
    ELSE [w EXCEPT !.calls = updateCall(@, id, [status |-> "ended"]),
                   !.spawn = IF meta THEN Append(@, [id |-> id, status |-> "completed"]) ELSE @,
                   !.timers = @ \cup {Timer("endedStreams", id)}]

handleCallFailed(w, id, meta) ==
    [w EXCEPT !.calls = updateCall(@, id, [status |-> "failed"]),
              !.spawn = IF meta THEN Append(@, [id |-> id, status |-> "failed"]) ELSE @,
              !.bcast = @ \cup {"call_failed"},
              !.byPhone = cleanupPhoneTracking(@, id, PayloadNumber(id)),
              !.timers = @ \cup {Timer("failedRemoval", id)}]

\* the handler without its check of the answer indicators
handleCallNoAnswerUnchecked(w, id, meta) ==
    [w EXCEPT !.calls = updateCall(@, id, [status |-> "no-answer"]),
              !.spawn = IF meta THEN Append(@, [id |-> id, status |-> "no-answer"]) ELSE @,
              !.bcast = @ \cup {"call_no_answer"},
              !.byPhone = cleanupPhoneTracking(@, id, PayloadNumber(id)),
              !.timers = @ \cup {Timer("noAnswerRemoval", id)}]

handleCallNoAnswer(w, id, meta) ==
    IF /\ id \in DOMAIN w.calls
       /\ (w.calls[id].answeredAt \/ Len(w.calls[id].transcript) > 0)
    THEN w
    ELSE [w EXCEPT !.calls = updateCall(@, id, [status |-> "no-answer"]),
                   !.spawn = IF meta THEN Append(@, [id |-> id, status |-> "no-answer"]) ELSE @,
                   !.bcast = @ \cup {"call_no_answer"},
                   !.byPhone = cleanupPhoneTracking(@, id, PayloadNumber(id)),
                   !.timers = @ \cup {Timer("noAnswerRemoval", id)}]

handleCallConnected(w, id) ==
    IF id \notin DOMAIN w.calls
    THEN w
    ELSE [w EXCEPT !.calls = updateCall(@, id, [status |-> "ringing"]),
                   !.bcast = @ \cup {"call_connected"}]

handleCallStarted(w, id) ==
    [w EXCEPT !.calls = addCall(@, id, "started", PayloadNumber(id)),
              !.bcast = @ \cup {"call_started"}]

answeredStatuses == {"in-progress", "answered", "active", "connected", "conversation-started"}

handleStatusUpdate(w, id, s, meta) ==
    LET known == id \in DOMAIN w.calls
        \* currentCall.statusHistory.push(...) on the array the record shares,
        \* or addCall of the unknown call with the reported status
        w1 == IF known
              THEN [w EXCEPT !.calls[id].statusHistory =
                        Append(@, [from |-> w.calls[id].status, to |-> s])]
              ELSE [w EXCEPT !.calls = addCall(@, id, s, PayloadNumber(id))]
        assumed == s \notin {"queued", "ringing", "failed", "ended", "no-answer"}
        w2 == IF s \in answeredStatuses THEN handleCallAnswered(w1, id)
              ELSE IF s = "ringing" THEN handleCallRinging(w1, id)
              ELSE IF s = "queued" THEN w1
              ELSE IF s = "failed" THEN handleCallFailed(w1, id, meta)
              ELSE IF s = "ended" THEN handleCallEnded(w1, id, meta)
              ELSE IF assumed THEN handleCallAnswered(w1, id)
              ELSE w1
        updates == IF s \in answeredStatuses \/ assumed
                   THEN [status |-> s, answeredAt |-> TRUE]
                   ELSE [status |-> s]
    IN  [w2 EXCEPT !.calls = updateCall(@, id, updates),
                   !.bcast = @ \cup {"call_status_update"}]

\* the fields a call record fetched earlier still carries when it is passed to
\* updateCall as the updates: answeredAt is a key of it only once it was set
Snapshot(call) ==
    IF call.answeredAt THEN call
    ELSE [f \in (DOMAIN call) \ {"answeredAt"} |-> call[f]]

KeepLast(seq, n) ==
    IF Len(seq) > n THEN SubSeq(seq, Len(seq) - n + 1, Len(seq)) ELSE seq

Entry(speaker, text, ttype) == [speaker |-> speaker, text |-> text, transcriptType |-> ttype]

handleTranscriptEvent(w, id, role, ttype, text) ==
    IF id \notin DOMAIN w.calls
    THEN w
    ELSE LET callData == w.calls[id]
             promote == callData.status \notin {"in-progress", "answered"}
             w1 == IF promote
                   THEN [w EXCEPT !.calls = updateCall(@, id,
                                    [status |-> "in-progress", answeredAt |-> TRUE]),
                                  !.bcast = @ \cup {"call_answered"}]
                   ELSE w
             entry == Entry(IF role = "assistant" THEN "assistant" ELSE "customer",
                            text, ttype)
             old == callData.transcript
             n == Len(old)
             pushed == IF /\ ttype = "partial"
                          /\ n >= 1
                          /\ old[n].speaker = entry.speaker
                          /\ old[n].transcriptType = "partial"
                       THEN [old EXCEPT ![n] = entry]
                       ELSE Append(old, entry)
             \* callData is still the record fetched before the promotion
             stale == [callData EXCEPT !.transcript = KeepLast(pushed, TranscriptCap),
                                       !.statusHistory = w1.calls[id].statusHistory]
         IN  [w1 EXCEPT !.calls = updateCall(@, id, Snapshot(stale)),
                        !.bcast = @ \cup {"transcript_update"}]

handleSpeechUpdate(w, id, role, text) ==
    IF id \notin DOMAIN w.calls
    THEN w
    ELSE LET callData == w.calls[id]
             pushed == Append(callData.transcript, Entry(role, text, "final"))
             same == [callData EXCEPT !.transcript = KeepLast(pushed, TranscriptCap)]
         IN  [w EXCEPT !.calls = updateCall(@, id, Snapshot(same)),
                       !.bcast = @ \cup {"transcript_update"}]

\* messages: the (role, content) pairs of a conversation-update
RECURSIVE AppendMessages(_, _)
AppendMessages(transcript, messages) ==
    IF messages = <<>> THEN transcript
    ELSE AppendMessages(
            Append(transcript,
                   Entry(IF Head(messages).role = "assistant" THEN "assistant" ELSE "customer",
                         Head(messages).content, "final")),
            Tail(messages))

handleConversationUpdate(w, id, messages) ==
    IF id \notin DOMAIN w.calls
    THEN w
    ELSE LET callData == w.calls[id]
             pushed == AppendMessages(callData.transcript, messages)
             same == [callData EXCEPT !.transcript = KeepLast(pushed, TranscriptCap)]
         IN  [w EXCEPT !.calls = updateCall(@, id, Snapshot(same)),
                       !.bcast = @ \cup (IF messages = <<>> THEN {} ELSE {"transcript_update"})]

\* speech-started, conversation-started, assistant-speaking, user-speaking
handleActivity(w, id) ==
    IF id \in DOMAIN w.calls /\ w.calls[id].status # "in-progress"
    THEN handleCallAnswered(w, id)
    ELSE w

\* ------------------------------------------------------ steps of the model
World ==
    [ calls |-> activeCalls, listeners |-> callListeners,
      byPhone |-> activeCallsByPhone, timers |-> timers,
      bcast |-> {}, spawn |-> <<>> ]

NoArg == [status |-> "", role |-> "", ttype |-> "", text |-> "", phone |-> <<>>, flag |-> FALSE]

\* the record of a step: the operation, the call it is about, its input, its
\* reply (res) and the call id the reply names (ref)
Op(op, id, arg, res, ref) == [op |-> op, id |-> id, arg |-> arg, res |-> res, ref |-> ref]

\* histories and transcripts are kept within the bounds of the model, and so
\* is the number of suspended campaign-side functions
Bounded(calls) ==
    \A id \in DOMAIN calls :
        /\ Len(calls[id].statusHistory) <= MaxHist
        /\ Len(calls[id].transcript) <= MaxTranscript
        /\ Len(calls[id].statusHistory) + Len(calls[id].transcript) <= MaxRecord

\* getCampaign's null
NoCampaign == [status |-> "none"]

\* a suspended async function: kind and pc name the function and the store or
\* provider operation it awaits; the other fields are its local variables
Task0 ==
    [ kind |-> "", pc |-> "", cid |-> 0, callId |-> 0, status |-> "",
      snap |-> NoCampaign, upd |-> NoCampaign, contacts |-> <<>>, batch |-> <<>>,
      i |-> 0, n |-> 0, k |-> 0, mc |-> 0, flag |-> FALSE ]

\* campaignController.updateCallStatus(callId, status, details) started by a
\* handler: it runs up to its first await
StatTask(sp) == [Task0 EXCEPT !.kind = "stat", !.pc = "find", !.callId = sp.id, !.status = sp.status]

RECURSIVE StatTasks(_)
StatTasks(spawn) == IF spawn = <<>> THEN <<>> ELSE <<StatTask(Head(spawn))>> \o StatTasks(Tail(spawn))

\* ------------------------------------------------------------ audio streams
\* setupAudioStreamWithRetry(callId, listenUrl, retryCount): new WebSocket and
\* its connection timeout.  root is the first connection of the retry chain
\* (0: this one).
setupAudioStreamWithRetry(ss, id, retryCount, root) ==
    Append(ss, [callId |-> id, retryCount |-> retryCount,
                root |-> IF root = 0 THEN Len(ss) + 1 ELSE root,
                state |-> "connecting", isConnected |-> FALSE, timeout |-> TRUE])

\* handleAudioStreamRetry(callId, listenUrl, retryCount, errorReason), called
\* by a handler of socket ws: the retry timers it leaves
handleAudioStreamRetry(rt, ws) ==
    IF ws.retryCount < maxRetries
    THEN BagAdd(rt, [callId |-> ws.callId, count |-> ws.retryCount + 1, root |-> ws.root])
    ELSE rt

\* the registry side of a step: the world the handler left and the record of
\* the operation
Registry(w, l) ==
    /\ Bounded(w.calls)
    /\ (w.spawn = <<>> \/ BagSize(tasks) + Len(w.spawn) <= MaxTasks)
    /\ activeCalls' = w.calls
    /\ callListeners' = w.listeners
    /\ activeCallsByPhone' = w.byPhone
    /\ timers' = w.timers
    /\ bcast' = w.bcast
    /\ last' = l
    /\ tasks' = BagAddAll(tasks, StatTasks(w.spawn))
    /\ UNCHANGED <<storeVars, conferences>>

\* a step of a handler that is given no streaming URL and leaves the audio
\* streams alone
Commit(w, l) == Registry(w, l) /\ UNCHANGED audioVars

\* ---- webhooks (handleVapiWebhook), one action per event type
WebhookStatusUpdate(type, id, s, meta) ==
    /\ id \in DOMAIN issued
    /\ Commit(handleStatusUpdate(World, id, s, meta),
              Op(type, id, [NoArg EXCEPT !.status = s, !.flag = meta], "ok", 0))
    /\ UNCHANGED <<issued, inflight>>

WebhookTranscript(id, role, ttype, text) ==
    /\ id \in DOMAIN issued
    /\ Registry(handleTranscriptEvent(World, id, role, ttype, text),
                Op("transcript", id, [NoArg EXCEPT !.role = role, !.ttype = ttype, !.text = text],
                   "ok", 0))
    \* callMonitor.updateCall(call.id, callData): callData is the whole record,
    \* its monitor.listenUrl included
    /\ IF /\ id \in DOMAIN activeCalls
          /\ "monitor" \in DOMAIN activeCalls[id]
          /\ id \notin DOMAIN audioStreams
       THEN /\ Len(sockets) < MaxSockets
            /\ sockets' = setupAudioStreamWithRetry(sockets, id, 0, 0)
            /\ UNCHANGED <<audioStreams, retryTimers>>
       ELSE UNCHANGED audioVars
    /\ UNCHANGED <<issued, inflight>>

WebhookSpeechUpdate(id, role, text) ==
    /\ id \in DOMAIN issued
    /\ Commit(handleSpeechUpdate(World, id, role, text),
              Op("speech-update", id, [NoArg EXCEPT !.role = role, !.text = text], "ok", 0))
    /\ UNCHANGED <<issued, inflight>>

WebhookConversationUpdate(id, role, text) ==
    /\ id \in DOMAIN issued
    /\ Commit(handleConversationUpdate(World, id, << [role |-> role, content |-> text] >>),
              Op("conversation-update", id, [NoArg EXCEPT !.role = role, !.text = text], "ok", 0))
    /\ UNCHANGED <<issued, inflight>>

WebhookCallStarted(id) ==
    /\ id \in DOMAIN issued
    /\ Commit(handleCallStarted(World, id), Op("call-started", id, NoArg, "ok", 0))
    /\ UNCHANGED <<issued, inflight>>

WebhookCallEnded(id, meta) ==
    /\ id \in DOMAIN issued
    /\ Commit(handleCallEnded(World, id, meta),
              Op("call-ended", id, [NoArg EXCEPT !.flag = meta], "ok", 0))
    /\ UNCHANGED <<issued, inflight>>

WebhookNoAnswer(id, meta) ==
    /\ id \in DOMAIN issued
    /\ Commit(handleCallNoAnswer(World, id, meta),
              Op("call-no-answer", id, [NoArg EXCEPT !.flag = meta], "ok", 0))
    /\ UNCHANGED <<issued, inflight>>

WebhookPhoneConnected(id) ==
    /\ id \in DOMAIN issued
    /\ Commit(handleCallConnected(World, id), Op("phone-call-connected", id, NoArg, "ok", 0))
    /\ UNCHANGED <<issued, inflight>>

WebhookCallAnswered(id) ==
    /\ id \in DOMAIN issued
    /\ Commit(handleCallAnswered(World, id), Op("call-answered", id, NoArg, "ok", 0))
    /\ UNCHANGED <<issued, inflight>>

WebhookActivity(id) ==
    /\ id \in DOMAIN issued
    /\ Commit(handleActivity(World, id), Op("speech-started", id, NoArg, "ok", 0))
    /\ UNCHANGED <<issued, inflight>>

\* ---- call controller (user requests)
PendingCreates ==
    LET RECURSIVE Sum(_)
        Sum(S) == IF S = {} THEN 0
                  ELSE LET e == CHOOSE x \in S : TRUE IN inflight.create[e] + Sum(S \ {e})
    IN  Sum(DOMAIN inflight.create)

\* the check with the ended calls blocking as well
DedupBlockingWithEnded == {"queued", "ringing", "in-progress", "ended"}

\* the statuses for which createCall's deduplication check blocks a new call
DedupBlocking == {"queued", "ringing", "in-progress"}

\* createCall up to "await vapiService.createCall": validation and the
\* deduplication check
CreateCallBegin(raw, hasAssistant, cap) ==
    LET formattedPhone == formatToE164(raw)
        arg == [NoArg EXCEPT !.phone = raw, !.flag = hasAssistant]
        tracked == formattedPhone \in DOMAIN activeCallsByPhone
        existing == IF tracked THEN activeCallsByPhone[formattedPhone] ELSE 0
        blocked == /\ tracked
                   /\ existing \in DOMAIN activeCalls
                   /\ activeCalls[existing].status \in DedupBlocking
    IN  IF ~hasAssistant \/ formattedPhone = Null
        THEN /\ last' = Op("createCall", 0, arg, "400", 0)
             /\ bcast' = {}
             /\ UNCHANGED <<registryVars, storeVars, tasks, conferences, audioVars>>
        ELSE IF blocked
        THEN /\ last' = Op("createCall", existing, arg, "409", existing)
             /\ bcast' = {}
             /\ UNCHANGED <<registryVars, storeVars, tasks, conferences, audioVars>>
        ELSE /\ Cardinality(DOMAIN issued) + PendingCreates < cap
             /\ activeCallsByPhone' = IF tracked THEN MapDelete(activeCallsByPhone, formattedPhone)
                                       ELSE activeCallsByPhone
             /\ inflight' = [inflight EXCEPT !.create = BagAdd(@, formattedPhone)]
             /\ last' = Op("createCall", existing, arg, "dispatched", 0)
             /\ bcast' = {}
             /\ UNCHANGED <<activeCalls, callListeners, issued, timers, storeVars, tasks, conferences, audioVars>>

\* the provider's call ids are 1, 2, ... in the order of creation
NextCallId == Cardinality(DOMAIN issued) + 1

\* createCall after the await: the provider created the call (ok), or the
\* request failed and the catch block ran.  The catch block reads
\* formattedPhone, a const of the try block, so it throws before it touches
\* the phone tracking or answers the request.
CreateCallReturn(phone, ok) ==
    /\ phone \in DOMAIN inflight.create
    /\ inflight' = [inflight EXCEPT !.create = BagRemove(@, phone)]
    /\ IF ok
       THEN LET id == NextCallId
                w == [World EXCEPT !.byPhone = MapSet(@, phone, id),
                                   !.calls = addCall(@, id, "queued", phone),
                                   !.bcast = {"call_created"}]
            IN  /\ issued' = MapSet(issued, id, phone)
                /\ Commit(w, Op("createCall.return", id, [NoArg EXCEPT !.phone = phone], "200", id))
       ELSE /\ issued' = issued
            /\ Commit(World, Op("createCall.return", 0, [NoArg EXCEPT !.phone = phone], "error", 0))

\* endCall up to "await vapiService.controlCall"
EndCallBegin(id) ==
    /\ id \in DOMAIN activeCalls
    /\ inflight' = [inflight EXCEPT !.end = @ \cup {id}]
    /\ Commit([World EXCEPT !.calls = updateCall(@, id, [status |-> "ending"]),
                            !.bcast = {"call_ending"}],
              Op("endCall", id, NoArg, "pending", 0))
    /\ UNCHANGED issued

\* endCall after the await (whether or not the control request succeeded)
EndCallFinish(id) ==
    /\ id \in inflight.end
    /\ inflight' = [inflight EXCEPT !.end = @ \ {id}]
    /\ Commit([World EXCEPT !.calls = updateCall(@, id, [status |-> "ended"]),
                            !.bcast = {"call_ended"},
                            !.timers = @ \cup {Timer("userEndRemoval", id)}],
              Op("endCall.return", id, NoArg, "200", 0))
    /\ UNCHANGED issued

TransferCall(id) ==
    /\ id \in DOMAIN activeCalls
    /\ Commit([World EXCEPT !.calls = updateCall(@, id, [status |-> "transferring"]),
                            !.bcast = {"call_transfer_initiated"}],
              Op("transferCall", id, NoArg, "200", 0))
    /\ UNCHANGED <<issued, inflight>>

\* the metadata object of an update-status request, spread into the updates:
\* "none", "listening" or "idle"
MetadataOf(name) ==
    IF name = "listening" THEN [listenerCount |-> 1, hasActiveListeners |-> TRUE]
    ELSE IF name = "idle" THEN [listenerCount |-> 0, hasActiveListeners |-> FALSE]
    ELSE EmptyMap

\* callController.updateCallStatus (PATCH /:callId/status)
UpdateCallStatus(id, s, metaName) ==
    /\ id \in DOMAIN activeCalls
    /\ Commit([World EXCEPT !.calls = updateCall(@, id, MetadataOf(metaName) @@ [status |-> s]),
                            !.bcast = {"call_status_updated"}],
              Op("updateCallStatus", id, [NoArg EXCEPT !.status = s, !.text = metaName], "200", 0))
    /\ UNCHANGED <<issued, inflight>>

\* callController.addListener: callMonitor.addListener(callId) reaches the
\* class's second addListener(callId, listenerId, callback), which replaces
\* the first; it stores the callback under the call id and counts nothing
AddListener(id) ==
    /\ id \in DOMAIN activeCalls
    /\ Commit([World EXCEPT !.listeners = @ \cup {id}], Op("addListener", id, NoArg, "200", 0))
    /\ UNCHANGED <<issued, inflight>>

RemoveListener(id) ==
    /\ id \in DOMAIN activeCalls
    /\ Commit([World EXCEPT !.listeners = @ \ {id}], Op("removeListener", id, NoArg, "200", 0))
    /\ UNCHANGED <<issued, inflight>>

ForceCallAnswered(id) ==
    /\ id \in DOMAIN activeCalls
    /\ Commit([World EXCEPT !.calls = updateCall(@, id, [status |-> "in-progress", answeredAt |-> TRUE]),
                            !.bcast = {"call_answered"}],
              Op("forceCallAnswered", id, NoArg, "200", 0))
    /\ UNCHANGED <<issued, inflight>>

\* callController.cleanupPhoneNumber: the path parameter is the key as given
CleanupPhoneNumber(raw) ==
    /\ raw \in DOMAIN activeCallsByPhone
    /\ Commit([World EXCEPT !.byPhone = MapDelete(@, raw)],
              Op("cleanupPhoneNumber", 0, [NoArg EXCEPT !.phone = raw], "200", 0))
    /\ UNCHANGED <<issued, inflight>>

ForceCleanupPhoneTracking ==
    LET stale == { ph \in DOMAIN activeCallsByPhone :
                      \/ activeCallsByPhone[ph] \notin DOMAIN activeCalls
                      \/ activeCalls[activeCallsByPhone[ph]].status \in {"ended", "failed"} }
    IN  /\ stale # {}
        /\ Commit([World EXCEPT !.byPhone = [ph \in (DOMAIN @) \ stale |-> @[ph]]],
                  Op("forceCleanupPhoneTracking", 0, NoArg, "200", 0))
        /\ UNCHANGED <<issued, inflight>>

\* ---- timers
Removal(w, id, force) == IF removeCallAllowed(w.calls, id, force) THEN "removed" ELSE "blocked"

WithBroadcast(w, res, type) == IF res = "removed" THEN [w EXCEPT !.bcast = @ \cup {type}] ELSE w

\* closeAudioStream(callId): the stream is closed and forgotten only when its
\* socket is open
closeAudioStream(streams, ss, id) ==
    IF id \in DOMAIN streams /\ ss[streams[id]].state = "open"
    THEN MapDelete(streams, id)
    ELSE streams

\* a step in which removeCall got past its safety checks for the calls ids:
\* the registry side, and closeAudioStream for each of them
CommitRemoval(w, l, ids) ==
    /\ Registry(w, l)
    /\ audioStreams' =
          [id \in { x \in DOMAIN audioStreams :
                       x \in ids => closeAudioStream(audioStreams, sockets, x) = audioStreams }
              |-> audioStreams[id]]
    /\ UNCHANGED <<sockets, retryTimers>>

\* handleCallEnded, first timer: broadcast, phone tracking, second timer
FireEndedStreams(id) ==
    /\ Timer("endedStreams", id) \in timers
    /\ Commit([World EXCEPT !.bcast = {"call_ended"},
                            !.byPhone = cleanupPhoneTracking(@, id, PayloadNumber(id)),
                            !.timers = (@ \ {Timer("endedStreams", id)})
                                        \cup {Timer("endedRemoval", id)}],
              Op("timer.endedStreams", id, NoArg, "ok", 0))
    /\ UNCHANGED <<issued, inflight>>

\* handleCallEnded, second timer
FireEndedRemoval(id) ==
    /\ Timer("endedRemoval", id) \in timers
    /\ LET w == [World EXCEPT !.timers = @ \ {Timer("endedRemoval", id)}]
       IN  IF id \in DOMAIN activeCalls /\ activeCalls[id].hasActiveListeners
           THEN Commit([w EXCEPT !.timers = @ \cup {Timer("endedRecheck", id)}],
                       Op("timer.endedRemoval", id, NoArg, "rescheduled", 0))
           ELSE CommitRemoval(WithBroadcast(removeCall(w, id, TRUE), "removed", "call_removed_from_monitor"),
                              Op("timer.endedRemoval", id, NoArg, "removed", 0), {id})
    /\ UNCHANGED <<issued, inflight>>

\* handleCallEnded, the check five minutes after a blocked removal
FireEndedRecheck(id) ==
    /\ Timer("endedRecheck", id) \in timers
    /\ LET w == [World EXCEPT !.timers = @ \ {Timer("endedRecheck", id)}]
       IN  IF id \in DOMAIN activeCalls /\ ~activeCalls[id].hasActiveListeners
           THEN CommitRemoval(WithBroadcast(removeCall(w, id, TRUE), "removed", "call_removed_from_monitor"),
                              Op("timer.endedRecheck", id, NoArg, "removed", 0), {id})
           ELSE Commit(w, Op("timer.endedRecheck", id, NoArg, "skipped", 0))
    /\ UNCHANGED <<issued, inflight>>

FireFailedRemoval(id) ==
    /\ Timer("failedRemoval", id) \in timers
    /\ LET w == [World EXCEPT !.timers = @ \ {Timer("failedRemoval", id)}]
       IN  CommitRemoval(WithBroadcast(removeCall(w, id, TRUE), "removed", "call_removed_from_monitor"),
                         Op("timer.failedRemoval", id, NoArg, "removed", 0), {id})
    /\ UNCHANGED <<issued, inflight>>

FireNoAnswerRemoval(id) ==
    /\ Timer("noAnswerRemoval", id) \in timers
    /\ LET w == [World EXCEPT !.timers = @ \ {Timer("noAnswerRemoval", id)}]
           res == Removal(w, id, FALSE)
       IN  IF /\ id \in DOMAIN activeCalls
              /\ (activeCalls[id].answeredAt \/ Len(activeCalls[id].transcript) > 0)
           THEN Commit(w, Op("timer.noAnswerRemoval", id, NoArg, "skipped", 0))
           ELSE CommitRemoval(WithBroadcast(removeCall(w, id, FALSE), res, "call_removed_from_monitor"),
                              Op("timer.noAnswerRemoval", id, NoArg, res, 0),
                              IF res = "removed" THEN {id} ELSE {})
    /\ UNCHANGED <<issued, inflight>>

\* endCall: setTimeout(() => callMonitor.removeCall(callId), 5000)
FireUserEndRemoval(id) ==
    /\ Timer("userEndRemoval", id) \in timers
    /\ LET w == [World EXCEPT !.timers = @ \ {Timer("userEndRemoval", id)}]
       IN  CommitRemoval(removeCall(w, id, FALSE),
                         Op("timer.userEndRemoval", id, NoArg, Removal(w, id, FALSE), 0),
                         IF Removal(w, id, FALSE) = "removed" THEN {id} ELSE {})
    /\ UNCHANGED <<issued, inflight>>

\* CallMonitor.cleanup (every five minutes): old is the set of calls whose age
\* passes the limit of their status
RECURSIVE removeAll(_, _)
removeAll(w, ids) ==
    IF ids = {} THEN w
    ELSE LET id == CHOOSE x \in ids : TRUE
         IN  removeAll(removeCall(w, id, FALSE), ids \ {id})

PeriodicCleanup(old) ==
    /\ old # {}
    /\ old \subseteq { id \in DOMAIN activeCalls : activeCalls[id].status \in {"ended", "failed", "queued"} }
    /\ CommitRemoval(removeAll(World, old), Op("cleanup", 0, NoArg, "ok", 0),
                     { id \in old : removeCallAllowed(activeCalls, id, FALSE) })
    /\ UNCHANGED <<issued, inflight>>

\* ------------------------------------------------------------ shared store
\* RedisService.  The server talks to the store over one connection, which
\* answers commands in the order they were sent, so the commands of one
\* store operation (saveCampaign: setEx, sAdd; deleteCampaign: del, sRem, del)
\* take effect together.  Between two store operations of one async function
\* any other function may run.
\* the campaign record startCampaign builds
NewCampaign(contacts, mc, status) ==
    [ status |-> status,
      stats |-> [total |-> Len(contacts), completed |-> 0, failed |-> 0,
                 inProgress |-> 0, queued |-> Len(contacts)],
      currentBatch |-> 0,
      maxConcurrent |-> mc ]

\* redisService.getCampaign: the record, or NoCampaign for null
getCampaign(id) == IF id \in DOMAIN campaigns THEN campaigns[id] ELSE NoCampaign

\* redisService.getAllCampaigns: the members of active_campaigns that have a record
getAllCampaigns == { id \in activeSet : id \in DOMAIN campaigns }

\* the filter with another status name: no campaign passes it
runningCampaignsOtherStatus(all) == { id \in all : campaigns[id].status = "running" }

\* startCampaign: activeCampaigns.filter(c => c.status === 'active')
runningCampaigns(all) == { id \in all : campaigns[id].status = "active" }

\* redisService.getCampaignCalls
getCampaignCalls(id) == IF id \in DOMAIN campaignCalls THEN campaignCalls[id] ELSE EmptyMap

Internal == Op("internal", 0, NoArg, "", 0)

\* a step of the campaign side: the store, the suspended functions, the timers
StoreStep(cs, set, q, cc, ts, tm, bc, l) ==
    /\ campaigns' = cs
    /\ activeSet' = set
    /\ queue' = q
    /\ campaignCalls' = cc
    /\ tasks' = ts
    /\ timers' = tm
    /\ bcast' = bc
    /\ last' = l
    /\ UNCHANGED <<activeCalls, callListeners, activeCallsByPhone, issued, inflight,
                   conferences, audioVars>>

\* the function t goes on as t2
Advance(t, t2) == BagAdd(BagRemove(tasks, t), t2)

\* the function t returns
Finish(t) == BagRemove(tasks, t)

\* a step that only moves the function t
TaskStep(t, ts) == StoreStep(campaigns, activeSet, queue, campaignCalls, ts, timers, {}, Internal)

\* redisService.updateCampaign, its read: the record the update will be merged into
UpdateGet(t, pcSave, onMissing) ==
    LET c == getCampaign(t.cid)
    IN  IF c = NoCampaign THEN onMissing
        ELSE TaskStep(t, Advance(t, [t EXCEPT !.pc = pcSave, !.snap = c]))

\* redisService.updateCampaign, its write: {...campaign, ...updates} saved
UpdateSave(t, updates, ts, tm, bc) ==
    StoreStep(MapSet(campaigns, t.cid, updates @@ t.snap), activeSet \cup {t.cid},
              queue, campaignCalls, ts, tm, bc, Internal)

\* ------------------------------------------------------- campaign controller
\* startCampaign up to its first write: the request and its check
StartCampaign(id, contacts, mc, scheduled) ==
    LET arg == [NoArg EXCEPT !.flag = scheduled]
    IN  IF runningCampaigns(getAllCampaigns) # {}
        THEN /\ last' = Op("startCampaign", id, arg, "400", 0)
             /\ bcast' = {}
             /\ UNCHANGED <<registryVars, storeVars, tasks, conferences, audioVars>>
        ELSE /\ BagSize(tasks) < MaxTasks
             /\ StoreStep(campaigns, activeSet, queue, campaignCalls,
                          BagAdd(tasks, [Task0 EXCEPT !.kind = "start", !.pc = "saveCampaign",
                                                      !.cid = id, !.contacts = contacts,
                                                      !.mc = mc, !.flag = scheduled]),
                          timers, {}, Op("startCampaign", id, arg, "pending", 0))

\* startCampaign: await redisService.saveCampaign(id, campaign)
StartSaveCampaign(t) ==
    /\ t.kind = "start" /\ t.pc = "saveCampaign"
    /\ StoreStep(MapSet(campaigns, t.cid, NewCampaign(t.contacts, t.mc, "active")),
                 activeSet \cup {t.cid}, queue, campaignCalls,
                 Advance(t, [t EXCEPT !.pc = "saveQueue"]), timers, {}, Internal)

\* startCampaign: await redisService.saveCampaignQueue(id, contacts), then
\* either the scheduling branch or executeCampaign(id) and the reply
StartSaveQueue(t) ==
    /\ t.kind = "start" /\ t.pc = "saveQueue"
    /\ StoreStep(campaigns, activeSet, MapSet(queue, t.cid, t.contacts), campaignCalls,
                 IF t.flag
                 THEN Advance(t, [t EXCEPT !.pc = "schedule.get"])
                 ELSE Advance(t, [Task0 EXCEPT !.kind = "execute", !.pc = "get", !.cid = t.cid]),
                 timers, {}, Internal)

\* startCampaign: await redisService.updateCampaign(id, {status: 'scheduled'})
StartScheduleGet(t) ==
    /\ t.kind = "start" /\ t.pc = "schedule.get"
    /\ UpdateGet(t, "schedule.save", TaskStep(t, Finish(t)))

StartScheduleSave(t) ==
    /\ t.kind = "start" /\ t.pc = "schedule.save"
    /\ UpdateSave(t, [status |-> "scheduled"], Finish(t),
                  timers \cup {Timer("scheduledStart", t.cid)}, {})

\* the setTimeout of startCampaign or scheduleCampaign: executeCampaign(id)
ScheduledStartFires(id) ==
    /\ Timer("scheduledStart", id) \in timers
    /\ BagSize(tasks) < MaxTasks
    /\ StoreStep(campaigns, activeSet, queue, campaignCalls,
                 BagAdd(tasks, [Task0 EXCEPT !.kind = "execute", !.pc = "get", !.cid = id]),
                 timers \ {Timer("scheduledStart", id)}, {}, Internal)

\* scheduleCampaign: the request, up to await redisService.saveCampaign
ScheduleCampaign(id, contacts, mc) ==
    /\ BagSize(tasks) < MaxTasks
    /\ StoreStep(campaigns, activeSet, queue, campaignCalls,
                 BagAdd(tasks, [Task0 EXCEPT !.kind = "schedule", !.pc = "saveCampaign",
                                             !.cid = id, !.contacts = contacts, !.mc = mc]),
                 timers, {}, Op("scheduleCampaign", id, NoArg, "pending", 0))

ScheduleSaveCampaign(t) ==
    /\ t.kind = "schedule" /\ t.pc = "saveCampaign"
    /\ StoreStep(MapSet(campaigns, t.cid, NewCampaign(t.contacts, t.mc, "scheduled")),
                 activeSet \cup {t.cid}, queue, campaignCalls,
                 Finish(t), timers \cup {Timer("scheduledStart", t.cid)}, {}, Internal)

\* executeCampaign: const campaign = await redisService.getCampaign(campaignId)
ExecuteGet(t) ==
    /\ t.kind = "execute" /\ t.pc = "get"
    /\ LET c == getCampaign(t.cid)
       IN  IF c = NoCampaign \/ c.status # "active"
           THEN TaskStep(t, Finish(t))
           ELSE TaskStep(t, Advance(t, [t EXCEPT !.pc = "activate.get", !.mc = c.maxConcurrent]))

\* executeCampaign: await redisService.updateCampaign(campaignId, {status: 'active'})
ExecuteActivateGet(t) ==
    /\ t.kind = "execute" /\ t.pc = "activate.get"
    /\ UpdateGet(t, "activate.save", TaskStep(t, Finish(t)))

\* ... and processBatch() is started
ExecuteActivateSave(t) ==
    /\ t.kind = "execute" /\ t.pc = "activate.save"
    /\ UpdateSave(t, [status |-> "active"],
                  Advance(t, [Task0 EXCEPT !.kind = "batch", !.pc = "check",
                                           !.cid = t.cid, !.mc = t.mc]),
                  timers, {})

\* processBatch: the status check
BatchCheck(t) ==
    /\ t.kind = "batch" /\ t.pc = "check"
    /\ LET c == getCampaign(t.cid)
       IN  IF c = NoCampaign \/ c.status # "active"
           THEN TaskStep(t, Finish(t))
           ELSE TaskStep(t, Advance(t, [t EXCEPT !.pc = "length", !.snap = c]))

QueueOf(id) == IF id \in DOMAIN queue THEN queue[id] ELSE <<>>

Min(a, b) == IF a < b THEN a ELSE b

Max(a, b) == IF a > b THEN a ELSE b

CompleteTask(t) == [Task0 EXCEPT !.kind = "complete", !.pc = "get", !.cid = t.cid]

\* the loop bound without the concurrency limit
BatchLengthUnlimited(t) ==
    /\ t.kind = "batch" /\ t.pc = "length"
    /\ LET queueLength == Len(QueueOf(t.cid))
       IN  IF queueLength = 0
           THEN TaskStep(t, Advance(t, CompleteTask(t)))
           ELSE TaskStep(t, Advance(t, [t EXCEPT !.pc = "pop", !.i = 0, !.batch = <<>>,
                                                 !.n = queueLength]))

\* processBatch: const queueLength = await redisService.getQueueLength(campaignId)
BatchLength(t) ==
    /\ t.kind = "batch" /\ t.pc = "length"
    /\ LET queueLength == Len(QueueOf(t.cid))
       IN  IF queueLength = 0
           THEN TaskStep(t, Advance(t, CompleteTask(t)))
           ELSE TaskStep(t, Advance(t, [t EXCEPT !.pc = "pop", !.i = 0, !.batch = <<>>,
                                                 !.n = Min(t.mc, queueLength)]))

\* the turn of the loop with a read of the head that leaves it in the queue
BatchPopPeek(t) ==
    /\ t.kind = "batch" /\ t.pc = "pop"
    /\ LET q == QueueOf(t.cid)
           batch == IF q = <<>> THEN t.batch ELSE Append(t.batch, Head(q))
           t2 == IF t.i + 1 < t.n THEN [t EXCEPT !.i = t.i + 1, !.batch = batch]
                 ELSE IF batch = <<>> THEN CompleteTask(t)
                 ELSE [t EXCEPT !.pc = "length2", !.i = t.i + 1, !.batch = batch]
       IN  StoreStep(campaigns, activeSet, queue, campaignCalls, Advance(t, t2),
                     timers, {}, Internal)

\* processBatch: one turn of the loop, await redisService.getNextContact
BatchPop(t) ==
    /\ t.kind = "batch" /\ t.pc = "pop"
    /\ LET q == QueueOf(t.cid)
           batch == IF q = <<>> THEN t.batch ELSE Append(t.batch, Head(q))
           rest == IF q = <<>> THEN queue ELSE MapSet(queue, t.cid, Tail(q))
           t2 == IF t.i + 1 < t.n THEN [t EXCEPT !.i = t.i + 1, !.batch = batch]
                 ELSE IF batch = <<>> THEN CompleteTask(t)
                 ELSE [t EXCEPT !.pc = "length2", !.i = t.i + 1, !.batch = batch]
       IN  StoreStep(campaigns, activeSet, rest, campaignCalls, Advance(t, t2),
                     timers, {}, Internal)

\* processBatch: the arguments of updateCampaign, 'stats.queued': await
\* redisService.getQueueLength(campaignId)
BatchLength2(t) ==
    /\ t.kind = "batch" /\ t.pc = "length2"
    /\ TaskStep(t, Advance(t, [t EXCEPT !.pc = "stats.get",
                                        !.n = Len(QueueOf(t.cid)),
                                        !.i = t.snap.stats.inProgress + Len(t.batch),
                                        !.k = t.snap.currentBatch + 1]))

BatchTimer(id, mc) == [kind |-> "nextBatch", id |-> id, mc |-> mc]

\* processBatch: await redisService.updateCampaign(campaignId, {...}); when it
\* throws, the catch block schedules the next batch
BatchStatsGet(t) ==
    /\ t.kind = "batch" /\ t.pc = "stats.get"
    /\ UpdateGet(t, "stats.save",
                 StoreStep(campaigns, activeSet, queue, campaignCalls, Finish(t),
                           timers \cup {BatchTimer(t.cid, t.mc)}, {}, Internal))

RECURSIVE MakeCallTasks(_, _, _)
MakeCallTasks(cid, k, batch) ==
    IF batch = <<>> THEN <<>>
    ELSE << [Task0 EXCEPT !.kind = "makeCall", !.pc = "get", !.cid = cid, !.k = k,
                          !.contacts = <<Head(batch)>>] >>
         \o MakeCallTasks(cid, k, Tail(batch))

\* ... and batch.map(contact => makeCall(campaignId, contact))
BatchStatsSave(t) ==
    /\ t.kind = "batch" /\ t.pc = "stats.save"
    /\ t.i <= MaxStat
    /\ UpdateSave(t, ("stats.queued" :> t.n) @@ ("stats.inProgress" :> t.i)
                        @@ [currentBatch |-> t.k],
                  BagAddAll(Advance(t, [t EXCEPT !.pc = "wait"]),
                            MakeCallTasks(t.cid, t.k, t.batch)),
                  timers, {"campaign_update"})

\* an iteration that returns after its dispatches settled and schedules no
\* next one
BatchSettledOnce(t) ==
    /\ t.kind = "batch" /\ t.pc = "wait"
    /\ ~ \E m \in DOMAIN tasks : m.kind = "makeCall" /\ m.cid = t.cid /\ m.k = t.k
    /\ StoreStep(campaigns, activeSet, queue, campaignCalls, Finish(t), timers, {}, Internal)

\* processBatch: await Promise.allSettled(batchPromises), then
\* setTimeout(processBatch, callDelay)
BatchSettled(t) ==
    /\ t.kind = "batch" /\ t.pc = "wait"
    /\ ~ \E m \in DOMAIN tasks : m.kind = "makeCall" /\ m.cid = t.cid /\ m.k = t.k
    /\ StoreStep(campaigns, activeSet, queue, campaignCalls, Finish(t),
                 timers \cup {BatchTimer(t.cid, t.mc)}, {}, Internal)

NextBatchFires(id, mc) ==
    /\ BatchTimer(id, mc) \in timers
    /\ BagSize(tasks) < MaxTasks
    /\ StoreStep(campaigns, activeSet, queue, campaignCalls,
                 BagAdd(tasks, [Task0 EXCEPT !.kind = "batch", !.pc = "check",
                                             !.cid = id, !.mc = mc]),
                 timers \ {BatchTimer(id, mc)}, {}, Internal)

\* completeCampaign
CompleteGet(t) ==
    /\ t.kind = "complete" /\ t.pc = "get"
    /\ IF getCampaign(t.cid) = NoCampaign
       THEN TaskStep(t, Finish(t))
       ELSE TaskStep(t, Advance(t, [t EXCEPT !.pc = "update.get"]))

CompleteUpdateGet(t) ==
    /\ t.kind = "complete" /\ t.pc = "update.get"
    /\ UpdateGet(t, "update.save", TaskStep(t, Finish(t)))

CompleteUpdateSave(t) ==
    /\ t.kind = "complete" /\ t.pc = "update.save"
    /\ UpdateSave(t, [status |-> "completed"], Finish(t), timers, {"campaign_completed"})

\* makeCall: const campaign = await redisService.getCampaign(campaignId), the
\* phone number is formatted, and the provider is asked for the call
MakeCallGet(t) ==
    /\ t.kind = "makeCall" /\ t.pc = "get"
    /\ IF getCampaign(t.cid) = NoCampaign
       THEN TaskStep(t, Finish(t))
       ELSE IF formatToE164(t.contacts[1]) = Null
       THEN TaskStep(t, Advance(t, [t EXCEPT !.pc = "failed.get"]))
       ELSE TaskStep(t, Advance(t, [t EXCEPT !.pc = "provider"]))

\* makeCall: await vapiService.createCall(...) returns the call or throws
MakeCallProvider(t, ok, cap) ==
    /\ t.kind = "makeCall" /\ t.pc = "provider"
    /\ IF ok
       THEN /\ NextCallId <= cap
            /\ issued' = MapSet(issued, NextCallId, formatToE164(t.contacts[1]))
            /\ tasks' = Advance(t, [t EXCEPT !.pc = "record", !.callId = NextCallId])
       ELSE /\ issued' = issued
            /\ tasks' = Advance(t, [t EXCEPT !.pc = "failed.get"])
    /\ bcast' = {}
    /\ last' = Internal
    /\ UNCHANGED <<activeCalls, callListeners, activeCallsByPhone, inflight, timers, storeVars,
                   conferences, audioVars>>

\* makeCall: await redisService.addCallToCampaign(...), then
\* callMonitor.addCall(...) and the call_initiated broadcast
MakeCallRecord(t) ==
    /\ t.kind = "makeCall" /\ t.pc = "record"
    /\ campaignCalls' = MapSet(campaignCalls, t.cid,
                               MapSet(getCampaignCalls(t.cid), t.callId, "initiated"))
    /\ activeCalls' = addCall(activeCalls, t.callId, "queued", issued[t.callId])
    /\ tasks' = Finish(t)
    /\ bcast' = {"call_initiated"}
    /\ last' = Op("makeCall", t.callId, NoArg, "initiated", t.cid)
    /\ UNCHANGED <<callListeners, activeCallsByPhone, issued, inflight, timers,
                   campaigns, activeSet, queue, conferences, audioVars>>

\* makeCall, the catch block: const campaign = await redisService.getCampaign
MakeCallFailedGet(t) ==
    /\ t.kind = "makeCall" /\ t.pc = "failed.get"
    /\ LET c == getCampaign(t.cid)
       IN  IF c = NoCampaign
           THEN StoreStep(campaigns, activeSet, queue, campaignCalls, Finish(t),
                          timers, {"call_failed"}, Internal)
           ELSE TaskStep(t, Advance(t, [t EXCEPT !.pc = "failed.update.get",
                                                 !.i = c.stats.failed + 1,
                                                 !.n = Max(0, c.stats.inProgress - 1)]))

MakeCallFailedUpdateGet(t) ==
    /\ t.kind = "makeCall" /\ t.pc = "failed.update.get"
    /\ UpdateGet(t, "failed.update.save", TaskStep(t, Finish(t)))

MakeCallFailedUpdateSave(t) ==
    /\ t.kind = "makeCall" /\ t.pc = "failed.update.save"
    /\ UpdateSave(t, ("stats.failed" :> t.i) @@ ("stats.inProgress" :> t.n),
                  Finish(t), timers, {"call_failed"})

\* campaignController.updateCallStatus: const updatedStats = {...campaign.stats}
\* and the increments
updatedStats(stats, status) ==
    IF status = "completed"
    THEN [stats EXCEPT !.completed = @ + 1, !.inProgress = Max(0, @ - 1)]
    ELSE IF status \in {"failed", "no-answer", "busy"}
    THEN [stats EXCEPT !.failed = @ + 1, !.inProgress = Max(0, @ - 1)]
    ELSE stats

\* campaignController.updateCallStatus: getAllCampaigns and the search for the
\* campaign that holds the call
StatFind(t) ==
    /\ t.kind = "stat" /\ t.pc = "find"
    /\ LET found == { c \in getAllCampaigns : t.callId \in DOMAIN getCampaignCalls(c) }
       IN  IF found = {}
           THEN TaskStep(t, Finish(t))
           ELSE \E c \in found :
                   TaskStep(t, Advance(t, [t EXCEPT !.pc = "record", !.cid = c,
                                           !.upd = updatedStats(campaigns[c].stats, t.status)]))

\* ... await redisService.addCallToCampaign(campaign.id, callId, calls[callId])
StatRecord(t) ==
    /\ t.kind = "stat" /\ t.pc = "record"
    /\ StoreStep(campaigns, activeSet, queue,
                 MapSet(campaignCalls, t.cid, MapSet(getCampaignCalls(t.cid), t.callId, t.status)),
                 Advance(t, [t EXCEPT !.pc = "update.get"]), timers, {}, Internal)

\* ... await redisService.updateCampaign(campaign.id, {stats: updatedStats})
StatUpdateGet(t) ==
    /\ t.kind = "stat" /\ t.pc = "update.get"
    /\ UpdateGet(t, "update.save", TaskStep(t, Finish(t)))

StatUpdateSave(t) ==
    /\ t.kind = "stat" /\ t.pc = "update.save"
    /\ t.upd.completed <= MaxStat /\ t.upd.failed <= MaxStat
    /\ UpdateSave(t, [stats |-> t.upd], Finish(t), timers, {"campaign_update"})

\* stopCampaign: the request and its search for the active campaign
StopCampaign ==
    LET running == runningCampaigns(getAllCampaigns)
    IN  IF running = {}
        THEN /\ last' = Op("stopCampaign", 0, NoArg, "400", 0)
             /\ bcast' = {}
             /\ UNCHANGED <<registryVars, storeVars, tasks, conferences, audioVars>>
        ELSE \E c \in running :
                /\ BagSize(tasks) < MaxTasks
                /\ StoreStep(campaigns, activeSet, queue, campaignCalls,
                             BagAdd(tasks, [Task0 EXCEPT !.kind = "stop", !.pc = "update.get",
                                                         !.cid = c]),
                             timers, {}, Op("stopCampaign", c, NoArg, "pending", 0))

StopUpdateGet(t) ==
    /\ t.kind = "stop" /\ t.pc = "update.get"
    /\ UpdateGet(t, "update.save", TaskStep(t, Finish(t)))

StopUpdateSave(t) ==
    /\ t.kind = "stop" /\ t.pc = "update.save"
    /\ UpdateSave(t, [status |-> "stopped"], Advance(t, [t EXCEPT !.pc = "delete"]), timers, {})

\* stopCampaign: await redisService.deleteCampaign(runningCampaign.id)
StopDelete(t) ==
    /\ t.kind = "stop" /\ t.pc = "delete"
    /\ StoreStep(MapDelete(campaigns, t.cid), activeSet \ {t.cid}, MapDelete(queue, t.cid),
                 campaignCalls, Finish(t), timers, {"campaign_stopped"}, Internal)

\* ------------------------------------------------------------ specification
Init ==
    /\ activeCalls = EmptyMap
    /\ callListeners = {}
    /\ activeCallsByPhone = EmptyMap
    /\ issued = EmptyMap
    /\ inflight = [create |-> EmptyMap, end |-> {}]
    /\ timers = {}
    /\ bcast = {}
    /\ last = Op("init", 0, NoArg, "", 0)
    /\ campaigns = EmptyMap
    /\ activeSet = {}
    /\ queue = EmptyMap
    /\ campaignCalls = EmptyMap
    /\ tasks = EmptyMap
    /\ conferences = EmptyMap
    /\ audioStreams = EmptyMap
    /\ sockets = <<>>
    /\ retryTimers = EmptyMap

Roles == {"assistant", "user"}

\* ---- Spec: the webhook reconciler over the registry.  Calls placed with
\* createCall, every webhook event type on them, and the cleanup timers the
\* handlers schedule.
Next ==
    \/ CreateCallBegin(NationalA, TRUE, MaxFollowed)
    \/ \E phone \in E164Phones, ok \in BOOLEAN : CreateCallReturn(phone, ok)
    \* call.status: "forwarding" is a provider status the handlers do not know
    \/ \E type \in {"status-update", "unrecognized"}, id \in FollowedIds,
          s \in {"queued", "ringing", "in-progress", "answered", "forwarding",
                 "ended", "failed", "no-answer"} :
            WebhookStatusUpdate(type, id, s, FALSE)
    \/ \E id \in FollowedIds, role \in Roles, ttype \in {"partial", "final"},
          text \in {"hello", "bye"} :
            WebhookTranscript(id, role, ttype, text)
    \/ \E id \in FollowedIds, role \in Roles : WebhookSpeechUpdate(id, role, "hello")
    \/ \E id \in FollowedIds, role \in Roles : WebhookConversationUpdate(id, role, "hello")
    \/ \E id \in FollowedIds : WebhookCallStarted(id)
    \/ \E id \in FollowedIds : WebhookCallEnded(id, FALSE)
    \/ \E id \in FollowedIds : WebhookNoAnswer(id, FALSE)
    \/ \E id \in FollowedIds : WebhookPhoneConnected(id)
    \/ \E id \in FollowedIds : WebhookCallAnswered(id)
    \/ \E id \in FollowedIds : WebhookActivity(id)
    \/ \E id \in FollowedIds : FireEndedStreams(id)
    \/ \E id \in FollowedIds : FireEndedRemoval(id)
    \/ \E id \in FollowedIds : FireFailedRemoval(id)
    \/ \E id \in FollowedIds : FireNoAnswerRemoval(id)

Spec == Init /\ [][Next]_vars

\* ---- SpecCampaign: campaign admission over the shared store.  Start,
\* schedule and stop requests for campaigns without contacts, whose batch loop
\* finds the queue empty and completes the campaign.
NextCampaign ==
    \/ \E id \in CampaignIds, scheduled \in BOOLEAN : StartCampaign(id, <<>>, 1, scheduled)
    \/ \E t \in DOMAIN tasks : StartSaveCampaign(t)
    \/ \E t \in DOMAIN tasks : StartSaveQueue(t)
    \/ \E t \in DOMAIN tasks : StartScheduleGet(t)
    \/ \E t \in DOMAIN tasks : StartScheduleSave(t)
    \/ \E id \in CampaignIds : ScheduledStartFires(id)
    \/ \E id \in CampaignIds : ScheduleCampaign(id, <<>>, 1)
    \/ \E t \in DOMAIN tasks : ScheduleSaveCampaign(t)
    \/ \E t \in DOMAIN tasks : ExecuteGet(t)
    \/ \E t \in DOMAIN tasks : ExecuteActivateGet(t)
    \/ \E t \in DOMAIN tasks : ExecuteActivateSave(t)
    \/ \E t \in DOMAIN tasks : BatchCheck(t)
    \/ \E t \in DOMAIN tasks : BatchLength(t)
    \/ \E t \in DOMAIN tasks : CompleteGet(t)
    \/ \E t \in DOMAIN tasks : CompleteUpdateGet(t)
    \/ \E t \in DOMAIN tasks : CompleteUpdateSave(t)
    \/ StopCampaign
    \/ \E t \in DOMAIN tasks : StopUpdateGet(t)
    \/ \E t \in DOMAIN tasks : StopUpdateSave(t)
    \/ \E t \in DOMAIN tasks : StopDelete(t)

SpecCampaign == Init /\ [][NextCampaign]_vars

\* ---- SpecStats: one campaign with one contact, from its start to the call
\* it places, the call-ended webhooks for that call and the statistics
\* updates they start.

NextStats ==
    \/ campaigns = EmptyMap /\ tasks = EmptyMap /\ StartCampaign(1, <<NationalA>>, 1, FALSE)
    \/ \E t \in DOMAIN tasks : StartSaveCampaign(t)
    \/ \E t \in DOMAIN tasks : StartSaveQueue(t)
    \/ \E t \in DOMAIN tasks : ExecuteGet(t)
    \/ \E t \in DOMAIN tasks : ExecuteActivateGet(t)
    \/ \E t \in DOMAIN tasks : ExecuteActivateSave(t)
    \/ \E t \in DOMAIN tasks : BatchCheck(t)
    \/ \E t \in DOMAIN tasks : BatchLength(t)
    \/ \E t \in DOMAIN tasks : BatchPop(t)
    \/ \E t \in DOMAIN tasks : BatchLength2(t)
    \/ \E t \in DOMAIN tasks : BatchStatsGet(t)
    \/ \E t \in DOMAIN tasks : BatchStatsSave(t)
    \/ \E t \in DOMAIN tasks : BatchSettled(t)
    \/ NextBatchFires(1, 1)
    \/ \E t \in DOMAIN tasks : CompleteGet(t)
    \/ \E t \in DOMAIN tasks : CompleteUpdateGet(t)
    \/ \E t \in DOMAIN tasks : CompleteUpdateSave(t)
    \/ \E t \in DOMAIN tasks : MakeCallGet(t)
    \/ \E t \in DOMAIN tasks, ok \in BOOLEAN : MakeCallProvider(t, ok, MaxFollowed)
    \/ \E t \in DOMAIN tasks : MakeCallRecord(t)
    \/ \E t \in DOMAIN tasks : MakeCallFailedGet(t)
    \/ \E t \in DOMAIN tasks : MakeCallFailedUpdateGet(t)
    \/ \E t \in DOMAIN tasks : MakeCallFailedUpdateSave(t)
    \/ \E id \in FollowedIds, meta \in BOOLEAN : WebhookCallEnded(id, meta)
    \/ \E t \in DOMAIN tasks : StatFind(t)
    \/ \E t \in DOMAIN tasks : StatRecord(t)
    \/ \E t \in DOMAIN tasks : StatUpdateGet(t)
    \/ \E t \in DOMAIN tasks : StatUpdateSave(t)

SpecStats == Init /\ [][NextStats]_vars

\* ---- SpecTally: one campaign of BatchLimit contacts dispatched in one
\* batch, every call accepted by the provider; when the campaign is completed
\* each call gets its call-ended event once, and the statistics updates the
\* events start run in any order.
NextTally ==
    \/ campaigns = EmptyMap /\ tasks = EmptyMap /\ StartCampaign(1, ContactList(BatchLimit), BatchLimit, FALSE)
    \/ \E t \in DOMAIN tasks : StartSaveCampaign(t)
    \/ \E t \in DOMAIN tasks : StartSaveQueue(t)
    \/ \E t \in DOMAIN tasks : ExecuteGet(t)
    \/ \E t \in DOMAIN tasks : ExecuteActivateGet(t)
    \/ \E t \in DOMAIN tasks : ExecuteActivateSave(t)
    \/ \E t \in DOMAIN tasks : BatchCheck(t)
    \/ \E t \in DOMAIN tasks : BatchLength(t)
    \/ \E t \in DOMAIN tasks : BatchPop(t)
    \/ \E t \in DOMAIN tasks : BatchLength2(t)
    \/ \E t \in DOMAIN tasks : BatchStatsGet(t)
    \/ \E t \in DOMAIN tasks : BatchStatsSave(t)
    \/ \E t \in DOMAIN tasks : BatchSettled(t)
    \/ NextBatchFires(1, BatchLimit)
    \/ \E t \in DOMAIN tasks : CompleteGet(t)
    \/ \E t \in DOMAIN tasks : CompleteUpdateGet(t)
    \/ \E t \in DOMAIN tasks : CompleteUpdateSave(t)
    \/ \E t \in DOMAIN tasks : MakeCallGet(t)
    \/ \E t \in DOMAIN tasks : MakeCallProvider(t, TRUE, BatchLimit)
    \/ \E t \in DOMAIN tasks : MakeCallRecord(t)
    \/ \E id \in DOMAIN activeCalls :
          /\ campaigns[1].status = "completed"
          /\ activeCalls[id].status \notin Terminal
          /\ WebhookCallEnded(id, TRUE)
    \/ \E t \in DOMAIN tasks : StatFind(t)
    \/ \E t \in DOMAIN tasks : StatRecord(t)
    \/ \E t \in DOMAIN tasks : StatUpdateGet(t)
    \/ \E t \in DOMAIN tasks : StatUpdateSave(t)

SpecTally == Init /\ [][NextTally]_vars

\* ---- SpecBatch: one campaign of MaxContacts contacts and concurrency limit
\* BatchLimit that is started once and never stopped; the provider creates or
\* refuses each call.
NextBatch ==
    \/ campaigns = EmptyMap /\ tasks = EmptyMap /\ StartCampaign(1, ContactList(MaxContacts), BatchLimit, FALSE)
    \/ \E t \in DOMAIN tasks : StartSaveCampaign(t)
    \/ \E t \in DOMAIN tasks : StartSaveQueue(t)
    \/ \E t \in DOMAIN tasks : ExecuteGet(t)
    \/ \E t \in DOMAIN tasks : ExecuteActivateGet(t)
    \/ \E t \in DOMAIN tasks : ExecuteActivateSave(t)
    \/ \E t \in DOMAIN tasks : BatchCheck(t)
    \/ \E t \in DOMAIN tasks : BatchLength(t)
    \/ \E t \in DOMAIN tasks : BatchPop(t)
    \/ \E t \in DOMAIN tasks : BatchLength2(t)
    \/ \E t \in DOMAIN tasks : BatchStatsGet(t)
    \/ \E t \in DOMAIN tasks : BatchStatsSave(t)
    \/ \E t \in DOMAIN tasks : BatchSettled(t)
    \/ NextBatchFires(1, BatchLimit)
    \/ \E t \in DOMAIN tasks : CompleteGet(t)
    \/ \E t \in DOMAIN tasks : CompleteUpdateGet(t)
    \/ \E t \in DOMAIN tasks : CompleteUpdateSave(t)
    \/ \E t \in DOMAIN tasks : MakeCallGet(t)
    \/ \E t \in DOMAIN tasks, ok \in BOOLEAN : MakeCallProvider(t, ok, MaxContacts)
    \/ \E t \in DOMAIN tasks : MakeCallRecord(t)
    \/ \E t \in DOMAIN tasks : MakeCallFailedGet(t)
    \/ \E t \in DOMAIN tasks : MakeCallFailedUpdateGet(t)
    \/ \E t \in DOMAIN tasks : MakeCallFailedUpdateSave(t)

SpecBatch == Init /\ [][NextBatch]_vars

\* SpecBatch under the scheduling of the event loop: a continuation whose
\* awaited store or provider operation has returned is run, and a timer that
\* has expired fires
SpecBatchFair == SpecBatch /\ WF_vars(NextBatch)

\* ---- SpecQueue: the queue of one campaign under start requests that
\* overlap, stop requests and the batch iterations.  The start requests carry
\* different contact lists; they arrive before the provider created a call and
\* while no other function of the campaign side is suspended.

NextQueue ==
    \/ \E contacts \in { SubSeq(ContactList(MaxContacts), 1, 2),
                          SubSeq(ContactList(MaxContacts), 3, 3) } :
          /\ issued = EmptyMap
          /\ \A t \in DOMAIN tasks : t.kind = "start"
          /\ StartCampaign(1, contacts, BatchLimit, FALSE)
    \/ \E t \in DOMAIN tasks : StartSaveCampaign(t)
    \/ \E t \in DOMAIN tasks : StartSaveQueue(t)
    \/ \E t \in DOMAIN tasks : ExecuteGet(t)
    \/ \E t \in DOMAIN tasks : ExecuteActivateGet(t)
    \/ \E t \in DOMAIN tasks : ExecuteActivateSave(t)
    \/ \E t \in DOMAIN tasks : BatchCheck(t)
    \/ \E t \in DOMAIN tasks : BatchLength(t)
    \/ \E t \in DOMAIN tasks : BatchPop(t)
    \/ \E t \in DOMAIN tasks : BatchLength2(t)
    \/ \E t \in DOMAIN tasks : BatchStatsGet(t)
    \/ \E t \in DOMAIN tasks : BatchStatsSave(t)
    \/ \E t \in DOMAIN tasks : BatchSettled(t)
    \/ NextBatchFires(1, BatchLimit)
    \/ \E t \in DOMAIN tasks : CompleteGet(t)
    \/ \E t \in DOMAIN tasks : CompleteUpdateGet(t)
    \/ \E t \in DOMAIN tasks : CompleteUpdateSave(t)
    \/ \E t \in DOMAIN tasks : MakeCallGet(t)
    \/ \E t \in DOMAIN tasks : MakeCallProvider(t, TRUE, MaxContacts)
    \/ \E t \in DOMAIN tasks : MakeCallRecord(t)
    \/ StopCampaign
    \/ \E t \in DOMAIN tasks : StopUpdateGet(t)
    \/ \E t \in DOMAIN tasks : StopUpdateSave(t)
    \/ \E t \in DOMAIN tasks : StopDelete(t)

SpecQueue == Init /\ [][NextQueue]_vars

\* ---- SpecDedup: the phone deduplication of createCall.  Call-create
\* requests in several spellings of the number, the events and requests that
\* change the status of the first call, the timers that clear the phone
\* tracking or evict an ended call, and the endpoints that clear the phone
\* tracking.
NextDedup ==
    \* the call-create requests: phone_number and whether metadata.assistantType is given
    \/ \E req \in { <<NationalA, TRUE>>, <<DashedA, TRUE>>, <<ShortPhone, TRUE>>,
                     <<NationalA, FALSE>> } :
            CreateCallBegin(req[1], req[2], MaxCalls)
    \/ \E phone \in E164Phones, ok \in BOOLEAN : CreateCallReturn(phone, ok)
    \/ \E id \in FollowedIds, s \in {"ringing", "answered", "failed"} :
            WebhookStatusUpdate("status-update", id, s, FALSE)
    \/ \E id \in FollowedIds : WebhookCallStarted(id)
    \/ \E id \in FollowedIds : WebhookCallEnded(id, FALSE)
    \/ \E id \in FollowedIds : WebhookNoAnswer(id, FALSE)
    \/ \E id \in FollowedIds : EndCallBegin(id)
    \/ \E id \in FollowedIds : EndCallFinish(id)
    \/ \E id \in FollowedIds : TransferCall(id)
    \/ \E id \in FollowedIds : FireEndedStreams(id)
    \/ \E id \in FollowedIds : FireEndedRemoval(id)
    \/ \E id \in FollowedIds : FireFailedRemoval(id)
    \/ \E id \in FollowedIds : FireNoAnswerRemoval(id)
    \/ \E id \in FollowedIds : FireUserEndRemoval(id)
    \/ \E raw \in {NationalA} \cup E164Phones : CleanupPhoneNumber(raw)
    \/ ForceCleanupPhoneTracking

SpecDedup == Init /\ [][NextDedup]_vars

\* ---- SpecEvict: the removals of a call from the registry: the forced ones of the ended
\* call's timers, and the unforced ones of endCall's timer, of the no-answer
\* timer and of the periodic cleanup, for a call that listeners attach to and
\* whose record update-status requests write.
NextEvict ==
    \/ CreateCallBegin(NationalA, TRUE, MaxFollowed)
    \/ \E phone \in E164Phones, ok \in BOOLEAN : CreateCallReturn(phone, ok)
    \/ \E id \in FollowedIds, s \in {"ended", "in-progress"}, m \in {"none", "listening", "idle"} :
            UpdateCallStatus(id, s, m)
    \/ \E id \in FollowedIds : AddListener(id)
    \/ \E id \in FollowedIds : RemoveListener(id)
    \/ \E id \in FollowedIds : ForceCallAnswered(id)
    \/ \E id \in FollowedIds : WebhookTranscript(id, "assistant", "final", "hello")
    \/ \E id \in FollowedIds : WebhookCallEnded(id, FALSE)
    \/ \E id \in FollowedIds : WebhookNoAnswer(id, FALSE)
    \/ \E id \in FollowedIds : WebhookStatusUpdate("status-update", id, "failed", FALSE)
    \/ \E id \in FollowedIds : EndCallBegin(id)
    \/ \E id \in FollowedIds : EndCallFinish(id)
    \/ \E id \in FollowedIds : FireEndedStreams(id)
    \/ \E id \in FollowedIds : FireEndedRemoval(id)
    \/ \E id \in FollowedIds : FireEndedRecheck(id)
    \/ \E id \in FollowedIds : FireFailedRemoval(id)
    \/ \E id \in FollowedIds : FireNoAnswerRemoval(id)
    \/ \E id \in FollowedIds : FireUserEndRemoval(id)
    \/ \E old \in SUBSET FollowedIds : PeriodicCleanup(old)

SpecEvict == Init /\ [][NextEvict]_vars

\* one call, the status-update that reports it answered, transcripts, the
\* events that give it a terminal status (call-ended, no-answer,
\* status-update failed, the end-call action), and the cleanup callbacks
NextTerminal ==
    \/ CreateCallBegin(NationalA, TRUE, MaxFollowed)
    \/ \E phone \in E164Phones, ok \in BOOLEAN : CreateCallReturn(phone, ok)
    \/ \E id \in FollowedIds : WebhookTranscript(id, "assistant", "final", "hello")
    \/ \E id \in FollowedIds : WebhookCallEnded(id, FALSE)
    \/ \E id \in FollowedIds : WebhookNoAnswer(id, FALSE)
    \/ \E id \in FollowedIds, st \in {"in-progress", "failed"} :
          WebhookStatusUpdate("status-update", id, st, FALSE)
    \/ \E id \in FollowedIds : EndCallBegin(id)
    \/ \E id \in FollowedIds : EndCallFinish(id)
    \/ \E id \in FollowedIds : FireEndedStreams(id)
    \/ \E id \in FollowedIds : FireEndedRemoval(id)
    \/ \E id \in FollowedIds : FireFailedRemoval(id)
    \/ \E id \in FollowedIds : FireNoAnswerRemoval(id)
    \/ \E id \in FollowedIds : FireUserEndRemoval(id)
    \/ \E old \in SUBSET FollowedIds : PeriodicCleanup(old)

\* the callbacks setTimeout and setInterval have scheduled: each of them runs
\* when its delay has passed
SpecTerminalFair ==
    /\ Init /\ [][NextTerminal]_vars
    /\ \A id \in FollowedIds :
          /\ WF_vars(FireEndedStreams(id))
          /\ WF_vars(FireEndedRemoval(id))
          /\ WF_vars(FireFailedRemoval(id))
          /\ WF_vars(FireNoAnswerRemoval(id))
          /\ WF_vars(FireUserEndRemoval(id))
    /\ WF_vars(\E old \in SUBSET FollowedIds : PeriodicCleanup(old))

\* ---------------------------------------------------- audio stream monitor
\* call-started whose call object carries monitor.listenUrl: addCall stores
\* the record and sets the stream up
WebhookCallStartedStream(id) ==
    /\ id \in DOMAIN issued
    /\ Len(sockets) < MaxSockets
    /\ Registry([handleCallStarted(World, id) EXCEPT
                    !.calls[id] = [monitor |-> "listenUrl"] @@ @],
                Op("call-started", id, [NoArg EXCEPT !.text = "listenUrl"], "ok", 0))
    /\ sockets' = setupAudioStreamWithRetry(sockets, id, 0, 0)
    /\ UNCHANGED <<audioStreams, retryTimers, issued, inflight>>

\* a step of a socket's handlers: the registry is left alone, and bc are the
\* events the step hands to emitToListeners
StreamStep(ss, streams, rt, bc) ==
    /\ sockets' = ss
    /\ audioStreams' = streams
    /\ retryTimers' = rt
    /\ bcast' = bc
    /\ last' = Internal
    /\ UNCHANGED <<activeCalls, callListeners, activeCallsByPhone, issued, inflight, timers,
                   storeVars, tasks, conferences>>

\* ws.on('open')
StreamOpen(s) ==
    /\ sockets[s].state = "connecting"
    /\ StreamStep([sockets EXCEPT ![s].state = "open", ![s].isConnected = TRUE,
                                  ![s].timeout = FALSE],
                  MapSet(audioStreams, sockets[s].callId, s), retryTimers,
                  {"audio_connected"})

\* a connection timeout after which the call is given up as failed
StreamTimeoutEndsCall(s) ==
    /\ sockets[s].timeout /\ ~sockets[s].isConnected
    /\ sockets' = [sockets EXCEPT ![s].state = "terminated", ![s].timeout = FALSE]
    /\ retryTimers' = handleAudioStreamRetry(retryTimers, sockets[s])
    /\ activeCalls' = IF sockets[s].retryCount < maxRetries THEN activeCalls
                      ELSE updateCall(activeCalls, sockets[s].callId, [status |-> "failed"])
    /\ bcast' = {IF sockets[s].retryCount < maxRetries
                 THEN "audio_retry_scheduled" ELSE "audio_retry_failed"}
    /\ last' = Internal
    /\ UNCHANGED <<callListeners, activeCallsByPhone, issued, inflight, timers,
                   storeVars, tasks, conferences, audioStreams>>

\* connectionTimeout: ws.terminate() and a retry
StreamTimeout(s) ==
    /\ sockets[s].timeout /\ ~sockets[s].isConnected
    /\ StreamStep([sockets EXCEPT ![s].state = "terminated", ![s].timeout = FALSE],
                  audioStreams, handleAudioStreamRetry(retryTimers, sockets[s]),
                  {IF sockets[s].retryCount < maxRetries
                   THEN "audio_retry_scheduled" ELSE "audio_retry_failed"})

\* ws.on('error'): of a connection that fails, is lost or was terminated; the
\* close event follows
StreamError(s) ==
    /\ sockets[s].state \in {"connecting", "open", "terminated"}
    /\ StreamStep([sockets EXCEPT ![s].state = "errored", ![s].timeout = FALSE],
                  MapDelete(audioStreams, sockets[s].callId),
                  handleAudioStreamRetry(retryTimers, sockets[s]),
                  {"audio_error", IF sockets[s].retryCount < maxRetries
                                  THEN "audio_retry_scheduled" ELSE "audio_retry_failed"})

\* ws.on('close'): code 1000 only when an open connection is closed normally
StreamClose(s, code) ==
    /\ sockets[s].state \in {"open", "terminated", "errored"}
    /\ code = 1000 => sockets[s].state = "open"
    /\ LET retry == code # 1000 /\ sockets[s].retryCount < maxRetries /\ sockets[s].isConnected
       IN  StreamStep([sockets EXCEPT ![s].state = "closed", ![s].timeout = FALSE],
                      MapDelete(audioStreams, sockets[s].callId),
                      IF retry THEN handleAudioStreamRetry(retryTimers, sockets[s])
                      ELSE retryTimers,
                      {"audio_disconnected"}
                          \cup (IF retry THEN {"audio_retry_scheduled"} ELSE {}))

\* the setTimeout callback of handleAudioStreamRetry
RetryFires(tm) ==
    /\ tm \in DOMAIN retryTimers
    /\ bcast' = {}
    /\ last' = Internal
    /\ retryTimers' = BagRemove(retryTimers, tm)
    /\ IF tm.callId \in DOMAIN activeCalls /\ tm.callId \notin DOMAIN audioStreams
       THEN /\ Len(sockets) < MaxSockets
            /\ sockets' = setupAudioStreamWithRetry(sockets, tm.callId, tm.count, tm.root)
       ELSE sockets' = sockets
    /\ UNCHANGED <<activeCalls, callListeners, activeCallsByPhone, issued, inflight, timers,
                   storeVars, tasks, conferences, audioStreams>>

\* one call whose stream is set up once, and every event of its connections
NextAudio ==
    \/ CreateCallBegin(NationalA, TRUE, MaxFollowed)
    \/ \E phone \in E164Phones, ok \in BOOLEAN : CreateCallReturn(phone, ok)
    \/ \E id \in FollowedIds : sockets = <<>> /\ WebhookCallStartedStream(id)
    \/ \E s \in DOMAIN sockets : StreamOpen(s)
    \/ \E s \in DOMAIN sockets : StreamTimeout(s)
    \/ \E s \in DOMAIN sockets : StreamError(s)
    \/ \E s \in DOMAIN sockets, code \in {1000, 1006} : StreamClose(s, code)
    \/ \E tm \in DOMAIN retryTimers : RetryFires(tm)

SpecAudio == Init /\ [][NextAudio]_vars

\* one call whose stream is being set up when the call fails: the events of
\* its connections and the removal of the failed call
NextOrphan ==
    \/ CreateCallBegin(NationalA, TRUE, MaxFollowed)
    \/ \E phone \in E164Phones, ok \in BOOLEAN : CreateCallReturn(phone, ok)
    \/ \E id \in FollowedIds : sockets = <<>> /\ WebhookCallStartedStream(id)
    \/ \E id \in FollowedIds : WebhookStatusUpdate("status-update", id, "failed", FALSE)
    \/ \E id \in FollowedIds : FireFailedRemoval(id)
    \/ \E s \in DOMAIN sockets : StreamOpen(s)
    \/ \E s \in DOMAIN sockets : StreamTimeout(s)
    \/ \E s \in DOMAIN sockets, code \in {1000, 1006} : StreamClose(s, code)
    \/ \E tm \in DOMAIN retryTimers : RetryFires(tm)

SpecOrphan == Init /\ [][NextOrphan]_vars

\* one call registered with its streaming URL, the transcript events that
\* update its record, and connections that open and close
NextStreams ==
    \/ CreateCallBegin(NationalA, TRUE, MaxFollowed)
    \/ \E phone \in E164Phones, ok \in BOOLEAN : CreateCallReturn(phone, ok)
    \/ \E id \in FollowedIds : sockets = <<>> /\ WebhookCallStartedStream(id)
    \/ \E id \in FollowedIds : WebhookTranscript(id, "assistant", "final", "hello")
    \/ \E s \in DOMAIN sockets : StreamOpen(s)
    \/ \E s \in DOMAIN sockets, code \in {1000, 1006} : StreamClose(s, code)
    \/ \E tm \in DOMAIN retryTimers : RetryFires(tm)

SpecStreams == Init /\ [][NextStreams]_vars

\* ------------------------------------------ conference bridging orchestrator
\* the object conferenceData as it stands when it is written to the store for
\* the stage-th time; "none" stands for a record without the field
\* (transferMethod, holdAssistantCallId, queueCallSid)
conferenceData(stage) ==
    IF stage = "initializing"
    THEN [status |-> "initializing", participants |-> <<>>, transferMethod |-> "none",
          holdAssistantCallId |-> "none", queueCallSid |-> "none"]
    ELSE IF stage = "hold_assistant_joining"
    THEN [status |-> "hold_assistant_joining", participants |-> <<"hold_assistant">>,
          transferMethod |-> "none",
          holdAssistantCallId |-> "hold", queueCallSid |-> "none"]
    ELSE IF stage = "waiting_for_agent"
    THEN [status |-> "waiting_for_agent", participants |-> <<"hold_assistant">>,
          transferMethod |-> "none",
          holdAssistantCallId |-> "hold", queueCallSid |-> "queue"]
    ELSE [status |-> "customer_joining",
          participants |-> <<"hold_assistant", "customer_joined">>,
          transferMethod |-> "call_modification",
          holdAssistantCallId |-> "hold", queueCallSid |-> "queue"]

\* conf_${Date.now()}_${finalLeadId}: an id no run and no record holds
FreshConferenceIds ==
    { c \in 1..MaxConferences :
        /\ c \notin DOMAIN conferences
        /\ \A t \in DOMAIN tasks : t.kind = "conference" => t.cid # c }

\* the reply of a run: res.json of the try block or of the catch block
ConferenceReply(t, ts, res, found, bc) ==
    /\ tasks' = ts
    /\ bcast' = bc
    /\ last' = Op("transfer-conference", t.cid, [NoArg EXCEPT !.text = found], res, 0)

\* the catch block: shouldTransferToQueue is set when error.message names
\* findActiveCallByPhone or modifyCallToJoinConference
ConferenceCatch(t, named) ==
    /\ ConferenceReply(t, Finish(t), IF named THEN "error.fallbackTransfer" ELSE "error",
                       t.status, {})
    /\ UNCHANGED conferences

\* router.post('/transfer-conference'): the request, up to
\* await twilioService.createConference
TransferConference(hasPhone) ==
    /\ UNCHANGED <<registryVars, storeVars, conferences, audioVars>>
    /\ IF ~hasPhone
       THEN /\ tasks' = tasks
            /\ bcast' = {}
            /\ last' = Op("transfer-conference", 0, NoArg, "error", 0)
       ELSE /\ BagSize(tasks) < MaxTasks
            /\ FreshConferenceIds # {}
            /\ LET c == CHOOSE x \in FreshConferenceIds : \A y \in FreshConferenceIds : x <= y
               IN  tasks' = BagAdd(tasks, [Task0 EXCEPT !.kind = "conference",
                                                       !.pc = "persist",
                                                       !.status = "initializing",
                                                       !.cid = c])
            /\ bcast' = {}
            /\ last' = Op("transfer-conference", 0, NoArg, "pending", 0)

\* await redisService.client.setEx(`conference:${conferenceId}`, 1800, ...)
ConferencePersist(t, ok) ==
    /\ t.kind = "conference" /\ t.pc = "persist"
    /\ UNCHANGED <<registryVars, storeVars, audioVars>>
    /\ IF ~ok
       THEN ConferenceCatch(t, FALSE)
       ELSE /\ conferences' = MapSet(conferences, t.cid, conferenceData(t.status))
            /\ IF t.status = "customer_joining"
               THEN ConferenceReply(t, Finish(t), "call_modification", "found",
                                    {"qualified_lead_conference"})
               ELSE /\ tasks' = Advance(t, [t EXCEPT !.pc =
                                 IF t.status = "initializing" THEN "holdAssistant"
                                 ELSE IF t.status = "hold_assistant_joining" THEN "queueDial"
                                 ELSE "find"])
                    /\ bcast' = IF t.status = "waiting_for_agent"
                                THEN {"qualified_lead_conference"} ELSE {}
                    /\ last' = Internal

\* await vapiService.createConferenceCall(...)
ConferenceHoldAssistant(t, ok) ==
    /\ t.kind = "conference" /\ t.pc = "holdAssistant"
    /\ UNCHANGED <<registryVars, storeVars, audioVars>>
    /\ IF ~ok
       THEN ConferenceCatch(t, FALSE)
       ELSE /\ tasks' = Advance(t, [t EXCEPT !.pc = "persist",
                                             !.status = "hold_assistant_joining"])
            /\ bcast' = {}
            /\ last' = Internal
            /\ UNCHANGED conferences

\* await twilioService.client.calls.create(...): the senior consultant queue
ConferenceQueueDial(t, ok) ==
    /\ t.kind = "conference" /\ t.pc = "queueDial"
    /\ UNCHANGED <<registryVars, storeVars, audioVars>>
    /\ IF ~ok
       THEN ConferenceCatch(t, FALSE)
       ELSE /\ tasks' = Advance(t, [t EXCEPT !.pc = "persist",
                                             !.status = "waiting_for_agent"])
            /\ bcast' = {}
            /\ last' = Internal
            /\ UNCHANGED conferences

\* TwilioService.findActiveCallByPhone: calls[0] of the in-progress calls to
\* the number, null when the list is empty or the search fails; then the
\* else branch of the route, the SIP transfer reply
ConferenceFind(t, found) ==
    /\ t.kind = "conference" /\ t.pc = "find"
    /\ UNCHANGED <<registryVars, storeVars, audioVars, conferences>>
    /\ IF found
       THEN /\ tasks' = Advance(t, [t EXCEPT !.pc = "modify"])
            /\ bcast' = {}
            /\ last' = Internal
       ELSE ConferenceReply(t, Finish(t), "sip_transfer_fallback", "not_found", {})

\* await twilioService.modifyCallToJoinConference(activeCall.sid, ...)
ConferenceModify(t, ok, named) ==
    /\ t.kind = "conference" /\ t.pc = "modify"
    /\ UNCHANGED <<registryVars, storeVars, audioVars>>
    /\ IF ~ok
       THEN ConferenceCatch(t, named)
       ELSE /\ tasks' = Advance(t, [t EXCEPT !.pc = "persist", !.status = "customer_joining"])
            /\ bcast' = {}
            /\ last' = Internal
            /\ UNCHANGED conferences

NextConference ==
    \/ \E hasPhone \in BOOLEAN : TransferConference(hasPhone)
    \/ \E t \in DOMAIN tasks, ok \in BOOLEAN : ConferencePersist(t, ok)
    \/ \E t \in DOMAIN tasks, ok \in BOOLEAN : ConferenceHoldAssistant(t, ok)
    \/ \E t \in DOMAIN tasks, ok \in BOOLEAN : ConferenceQueueDial(t, ok)
    \/ \E t \in DOMAIN tasks, found \in BOOLEAN : ConferenceFind(t, found)
    \/ \E t \in DOMAIN tasks, ok, named \in BOOLEAN : ConferenceModify(t, ok, named)

SpecConference == Init /\ [][NextConference]_vars

\* ---- the conference webhooks of the telephony provider and the request that
\* ends a conference.  who is the leg the event is about: "queue" is the call
\* to the senior consultant queue (From or To is its number, CallSid its sid),
\* "hold" the hold assistant's call, "customer" a call from the customer's
\* number, "other" any other leg.
\* handleTwilioWebhook up to its first await; an event without a case of the
\* switch is answered at once
handleTwilioWebhook(event, c, who) ==
    /\ UNCHANGED <<registryVars, storeVars, conferences, audioVars>>
    /\ bcast' = {}
    /\ last' = Op("twilio", c, NoArg, "OK", 0)
    /\ IF event \in {"participant-join", "participant-leave", "conference-start",
                     "conference-end"}
       THEN /\ Cardinality({ t \in DOMAIN tasks : t.kind = "twilio" }) < MaxTwilio
            /\ tasks' = BagAdd(tasks, [Task0 EXCEPT !.kind = "twilio", !.status = event,
                                         !.cid = c, !.batch = <<who>>,
                                         !.pc = IF event = "conference-start"
                                                THEN "update.get" ELSE "get"])
       ELSE tasks' = tasks

\* const conferenceData = await ConferenceController.getConferenceData(...) of
\* handleQueueAgentJoin and of the cases of the switch, and the test that
\* follows it; only handleQueueAgentJoin reads the object again later
getConferenceData(t) ==
    /\ t.kind = "twilio" /\ t.pc = "get"
    /\ UNCHANGED <<registryVars, storeVars, conferences, audioVars>>
    /\ last' = Internal
    /\ LET who == t.batch[1]
           found == t.cid \in DOMAIN conferences
           data == IF found THEN conferences[t.cid] ELSE NoCampaign
           writes == /\ found
                     /\ \/ t.status = "conference-end"
                        \/ t.status = "participant-join" /\ who = "customer"
                        \/ t.status = "participant-join" /\ who = "queue"
                              /\ data.queueCallSid = "queue"
                        \/ t.status = "participant-leave" /\ who = "hold"
                              /\ data.holdAssistantCallId = "hold"
       IN  IF writes
           THEN /\ tasks' = Advance(t, [t EXCEPT !.pc = "update.get",
                                              !.snap = IF who = "queue" THEN data ELSE @])
                /\ bcast' = {}
           ELSE /\ tasks' = Finish(t)
                /\ bcast' = IF found /\ t.status = "participant-join" /\ who # "queue"
                            THEN {"conference_participant_joined"} ELSE {}

\* updateConferenceData, its read; "Conference not found" is thrown to the
\* catch block of the handler
updateConferenceDataGet(t) ==
    /\ t.kind = "twilio" /\ t.pc = "update.get"
    /\ UNCHANGED <<registryVars, storeVars, conferences, audioVars>>
    /\ last' = Internal
    /\ bcast' = {}
    /\ IF t.cid \in DOMAIN conferences
       THEN tasks' = Advance(t, [t EXCEPT !.pc = "update.save", !.upd = conferences[t.cid]])
       ELSE tasks' = Finish(t)

\* updateConferenceData, its write: {...conferenceData, ...updates} saved, and
\* what the handler does next
updateConferenceDataSave(t) ==
    /\ t.kind = "twilio" /\ t.pc = "update.save"
    /\ UNCHANGED <<registryVars, storeVars, audioVars>>
    /\ LET who == t.batch[1]
           updates ==
               IF t.status \in {"conference-end", "endConference"}
               THEN [status |-> "ended"]
               ELSE IF t.status = "participant-leave"
               THEN [status |-> "agent_and_customer_connected"]
               ELSE IF t.status = "conference-start" THEN EmptyMap
               ELSE IF who = "customer" THEN [status |-> "customer_connected"]
               ELSE [status |-> "agent_connected",
                     participants |-> <<"customer", "hold_assistant", "agent">>]
           notify == /\ t.status = "participant-join" /\ who = "queue"
                     /\ t.snap.holdAssistantCallId # "none"
       IN  /\ conferences' = MapSet(conferences, t.cid, updates @@ t.upd)
           /\ tasks' = IF notify THEN Advance(t, [t EXCEPT !.pc = "notify"]) ELSE Finish(t)
           /\ bcast' = IF t.status \in {"conference-end", "endConference"}
                       THEN {"conference_ended"}
                       ELSE IF t.status = "participant-join"
                       THEN IF who = "customer" THEN {"conference_participant_joined"}
                            ELSE IF notify THEN {} ELSE {"agent_connected"}
                       ELSE {}
           /\ last' = Op("updateConferenceData", t.cid,
                         [NoArg EXCEPT !.status = t.status, !.role = who], "saved", 0)

\* handleQueueAgentJoin: await vapiService.sendMessage(holdAssistantCallId,
\* {type: 'agent-joined', ...}), then setTimeout(..., 5000) and the
\* agent_connected broadcast; a rejection goes to the catch block
handleQueueAgentJoin(t, ok) ==
    /\ t.kind = "twilio" /\ t.pc = "notify"
    /\ UNCHANGED <<activeCalls, callListeners, activeCallsByPhone, issued, inflight,
                   storeVars, conferences, audioVars>>
    /\ tasks' = Finish(t)
    /\ timers' = IF ok THEN timers \cup {Timer("holdGoodbye", t.cid)} ELSE timers
    /\ bcast' = IF ok THEN {"agent_connected"} ELSE {}
    /\ last' = Op("sendMessage", t.cid, NoArg, IF ok THEN "sent" ELSE "error", 0)

\* the callback of the timer: await vapiService.endCall(holdAssistantCallId)
HoldGoodbyeFires(c, ok) ==
    /\ Timer("holdGoodbye", c) \in timers
    /\ UNCHANGED <<activeCalls, callListeners, activeCallsByPhone, issued, inflight,
                   storeVars, tasks, conferences, audioVars>>
    /\ timers' = timers \ {Timer("holdGoodbye", c)}
    /\ bcast' = {}
    /\ last' = Op("endCall", c, NoArg, IF ok THEN "ended" ELSE "error", 0)

\* ConferenceController.endConference up to updateConferenceData: the record
\* is read (no record of the transfer route has a vapiCallId) and
\* twilioService.endConference returns or throws
endConference(c, ok) ==
    /\ UNCHANGED <<registryVars, storeVars, conferences, audioVars>>
    /\ bcast' = {}
    /\ last' = Op("endConference", c, NoArg, IF ok THEN "pending" ELSE "500", 0)
    /\ IF ok
       THEN /\ Cardinality({ t \in DOMAIN tasks : t.kind = "twilio" }) < MaxTwilio
            /\ tasks' = BagAdd(tasks, [Task0 EXCEPT !.kind = "twilio", !.pc = "update.get",
                                                    !.status = "endConference", !.cid = c,
                                                    !.batch = <<"other">>])
       ELSE tasks' = tasks

\* ---- SpecTwilio: one conference set up by the transfer route, the webhooks
\* of the telephony provider about it and about a conference the store does
\* not hold, in any order and any number, and requests to end them.  "participant-mute" is an event the switch has no
\* case for.
NextTwilio ==
    \/ conferences = EmptyMap /\ tasks = EmptyMap /\ TransferConference(TRUE)
    \/ \E t \in DOMAIN tasks : ConferencePersist(t, TRUE)
    \/ \E t \in DOMAIN tasks : ConferenceHoldAssistant(t, TRUE)
    \/ \E t \in DOMAIN tasks : ConferenceQueueDial(t, TRUE)
    \/ \E t \in DOMAIN tasks, found \in BOOLEAN : ConferenceFind(t, found)
    \/ \E t \in DOMAIN tasks, ok \in BOOLEAN : ConferenceModify(t, ok, TRUE)
    \/ \E event \in {"participant-join", "participant-leave", "conference-start",
                     "conference-end", "participant-mute"},
          c \in 1..MaxConferences, who \in {"queue", "hold", "customer", "other"} :
            handleTwilioWebhook(event, c, who)
    \/ \E t \in DOMAIN tasks : getConferenceData(t)
    \/ \E t \in DOMAIN tasks : updateConferenceDataGet(t)
    \/ \E t \in DOMAIN tasks : updateConferenceDataSave(t)
    \/ \E t \in DOMAIN tasks, ok \in BOOLEAN : handleQueueAgentJoin(t, ok)
    \/ \E c \in 1..MaxConferences, ok \in BOOLEAN : HoldGoodbyeFires(c, ok)
    \/ \E c \in 1..MaxConferences, ok \in BOOLEAN : endConference(c, ok)

SpecTwilio == Init /\ [][NextTwilio]_vars

\* SpecTwilio under the scheduling of the event loop: the continuations of the
\* handlers are run when the store or the provider has answered, and the
\* goodbye timer fires
SpecTwilioFair ==
    /\ SpecTwilio
    /\ WF_vars(\E t \in DOMAIN tasks : getConferenceData(t))
    /\ WF_vars(\E t \in DOMAIN tasks : updateConferenceDataGet(t))
    /\ WF_vars(\E t \in DOMAIN tasks : updateConferenceDataSave(t))
    /\ WF_vars(\E t \in DOMAIN tasks, ok \in BOOLEAN : handleQueueAgentJoin(t, ok))
    /\ WF_vars(\E c \in 1..MaxConferences, ok \in BOOLEAN : HoldGoodbyeFires(c, ok))

\* ------------------------------------------------------------- properties
\* the ranking of the statuses: queued < ringing < in-progress < terminal
Ranked == {"queued", "ringing", "in-progress"} \cup Terminal

StatusRank(s) ==
    IF s = "queued" THEN 0
    ELSE IF s = "ringing" THEN 1
    ELSE IF s = "in-progress" THEN 2
    ELSE 3

WebhookOps ==
    {"status-update", "unrecognized", "transcript", "speech-update", "conversation-update",
     "call-started", "call-ended", "call-no-answer", "phone-call-connected",
     "call-answered", "speech-started"}

\* C1: every change of a registered call's status goes to a status of the
\* same or a higher rank (queued < ringing < in-progress < ended, failed,
\* no-answer), unless it is a promotion to in-progress; no event moves an
\* in-progress or terminal call back to queued or ringing.
C1_StatusNeverRegresses ==
    [][\A id \in (DOMAIN activeCalls) \cap (DOMAIN activeCalls') :
          LET old == activeCalls[id].status
              new == activeCalls'[id].status
          IN  (old \in Ranked /\ new \in Ranked /\ new # old)
                  => (StatusRank(new) >= StatusRank(old) \/ new = "in-progress")]_vars

\* C2: after a transcript or speech event is handled for a registered call
\* whose status was not in-progress, the call's status is in-progress and a
\* call_answered broadcast was emitted in that step.
C2_ActivityPromotes ==
    [][(/\ last'.op \in {"transcript", "speech-update"}
        /\ last'.id \in DOMAIN activeCalls
        /\ activeCalls[last'.id].status # "in-progress")
          => (/\ last'.id \in DOMAIN activeCalls'
              /\ activeCalls'[last'.id].status = "in-progress"
              /\ "call_answered" \in bcast')]_vars

\* C3: a webhook event delivered a second time right after the first leaves
\* the call's registry entry (status, transcript, status history) as the
\* first delivery left it.
C3_RedeliveryIdempotent ==
    [][(/\ last.op \in WebhookOps
        /\ last' = last
        /\ last.id \in DOMAIN activeCalls)
          => (/\ last.id \in DOMAIN activeCalls'
              /\ activeCalls'[last.id].status = activeCalls[last.id].status
              /\ activeCalls'[last.id].transcript = activeCalls[last.id].transcript
              /\ activeCalls'[last.id].statusHistory = activeCalls[last.id].statusHistory)]_vars

\* C4: for a call of a campaign, however often its terminal event is
\* delivered, the campaign's completed and failed counters together count the
\* call once: they never exceed the number of calls the campaign placed.
C4_StatsOncePerCall ==
    \A c \in DOMAIN campaigns :
        campaigns[c].stats.completed + campaigns[c].stats.failed
            <= Cardinality(DOMAIN getCampaignCalls(c))

ActiveCampaigns == { c \in DOMAIN campaigns : campaigns[c].status = "active" }

\* C5: at most one campaign record of the shared store has status active.
C5_AtMostOneActive == Cardinality(ActiveCampaigns) <= 1

LiveEntry(phone) ==
    /\ phone \in DOMAIN activeCallsByPhone
    /\ activeCallsByPhone[phone] \in DOMAIN activeCalls
    /\ activeCalls[activeCallsByPhone[phone]].status \notin Terminal

\* the phone-dedup entry of a number points to a call that reached a terminal
\* status or is no longer registered
StaleEntry(phone) ==
    /\ phone \in DOMAIN activeCallsByPhone
    /\ \/ activeCallsByPhone[phone] \notin DOMAIN activeCalls
       \/ activeCalls[activeCallsByPhone[phone]].status \in Terminal

\* C7: a valid call-create request to a number whose phone-dedup entry points
\* to a registered call in a non-terminal status is rejected with that call's
\* id, and nothing is dispatched to the provider.
C7_LiveEntryRejects ==
    [][(/\ last'.op = "createCall"
        /\ last'.res # "400"
        /\ LiveEntry(formatToE164(last'.arg.phone)))
          => (/\ last'.res = "409"
              /\ last'.ref = activeCallsByPhone[formatToE164(last'.arg.phone)]
              /\ inflight' = inflight)]_vars

\* C8: a valid call-create request to a number whose phone-dedup entry points
\* to a call that reached a terminal status or was evicted is accepted and
\* dispatched to the provider, and when the provider has created the call the
\* entry of the number points to the new call, which is registered.
C8_StaleEntryAccepts ==
    [][/\ (/\ last'.op = "createCall"
           /\ last'.res # "400"
           /\ StaleEntry(formatToE164(last'.arg.phone)))
             => (/\ last'.res = "dispatched"
                 /\ formatToE164(last'.arg.phone) \in DOMAIN inflight'.create
                 /\ inflight' # inflight)
       /\ (last'.op = "createCall.return" /\ last'.res = "200")
             => (/\ last'.arg.phone \in DOMAIN activeCallsByPhone'
                 /\ activeCallsByPhone'[last'.arg.phone] = last'.id
                 /\ last'.id \notin DOMAIN issued
                 /\ last'.id \in DOMAIN activeCalls')]_vars

\* a request found an entry whose call had ended or left the registry, and was
\* dispatched to the provider
C8_Witness ==
    /\ last.op = "createCall"
    /\ last.res = "dispatched"
    /\ last.id # 0
    /\ last.id \notin DOMAIN activeCalls \/ activeCalls[last.id].status \in Terminal

\* C9: the registry never holds two calls in non-terminal status to the same
\* normalized phone number.
C9_OneLiveCallPerNumber ==
    \A a, b \in DOMAIN activeCalls :
        (a # b /\ activeCalls[a].number = activeCalls[b].number)
            => (activeCalls[a].status \in Terminal \/ activeCalls[b].status \in Terminal)

\* the operations that call removeCall without force
UnforcedRemovals == {"timer.userEndRemoval", "timer.noAnswerRemoval", "cleanup"}

\* C10: removeCall without force returns false and leaves the call's registry
\* entry and its listener bookkeeping as they were when the call has a
\* listenerCount other than 0 or a transcript that is not empty.
C10_EvictRefused ==
    [][last'.op \in UnforcedRemovals
          => \A id \in DOMAIN activeCalls :
                (activeCalls[id].listenerCount # 0 \/ activeCalls[id].transcript # <<>>)
                    => (/\ id \in DOMAIN activeCalls'
                        /\ activeCalls'[id] = activeCalls[id]
                        /\ (id \in callListeners') = (id \in callListeners)
                        /\ (last'.id = id => last'.res # "removed"))]_vars

\* the callbacks of the cleanup timers and of the periodic cleanup
CleanupTimers ==
    {"timer.endedRemoval", "timer.endedRecheck", "timer.failedRemoval",
     "timer.noAnswerRemoval", "timer.userEndRemoval", "cleanup"}

\* C11: no cleanup timer (the delayed cleanup after an ended, failed or
\* no-answer event, the timer of endCall, the periodic cleanup) removes a call
\* from the registry while its listenerCount is greater than 0.
C11_NoEvictionWhileListened ==
    [][last'.op \in CleanupTimers
          => \A id \in DOMAIN activeCalls :
                activeCalls[id].listenerCount > 0 => id \in DOMAIN activeCalls']_vars

\* a transcript holds a final entry
HasFinal(transcript) ==
    \E i \in 1..Len(transcript) : transcript[i].transcriptType = "final"

\* C12: a call-no-answer event that arrives for a call that is in-progress and
\* whose transcript holds a final entry (after dispatch, status-update
\* in-progress and a final transcript) leaves the status in-progress: the
\* status does not become no-answer.
C12_LateNoAnswerIgnored ==
    [][(/\ last'.op = "call-no-answer"
        /\ last'.id \in DOMAIN activeCalls
        /\ activeCalls[last'.id].status = "in-progress"
        /\ HasFinal(activeCalls[last'.id].transcript))
          => (/\ last'.id \in DOMAIN activeCalls'
              /\ activeCalls'[last'.id].status = "in-progress"
              /\ Timer("noAnswerRemoval", last'.id) \in timers' => Timer("noAnswerRemoval", last'.id) \in timers)]_vars

\* the late call-no-answer event was delivered to a call dispatched, reported
\* in-progress and with a final transcript line
C12_Witness ==
    /\ last.op = "call-no-answer"
    /\ last.id \in DOMAIN activeCalls
    /\ activeCalls[last.id].status = "in-progress"
    /\ activeCalls[last.id].statusHistory[1] = [from |-> "call_creation", to |-> "queued"]
    /\ \E i \in DOMAIN activeCalls[last.id].statusHistory :
          activeCalls[last.id].statusHistory[i] = [from |-> "queued", to |-> "in-progress"]
    /\ HasFinal(activeCalls[last.id].transcript)

\* the number of suspended makeCall functions
MakeCallCount(ts) ==
    LET RECURSIVE Sum(_)
        Sum(S) == IF S = {} THEN 0
                  ELSE LET e == CHOOSE x \in S : TRUE IN ts[e] + Sum(S \ {e})
    IN  Sum({ t \in DOMAIN ts : t.kind = "makeCall" })

\* the batch a processBatch iteration holds, with the queue behind it, is the
\* rest of the contact list from a multiple of the limit on; a batch that is
\* popped in full has the limit's size, or what was left of the list
BatchInOrder(t) ==
    LET all == ContactList(MaxContacts)
        held == t.batch \o QueueOf(t.cid)
        start == MaxContacts - Len(held)
    IN  /\ start >= 0
        /\ start % BatchLimit = 0
        /\ held = SubSeq(all, start + 1, MaxContacts)
        /\ t.pc \in {"length2", "stats.get", "stats.save", "wait"}
              => Len(t.batch) = Min(BatchLimit, MaxContacts - start)
        /\ t.pc \in {"stats.get", "stats.save", "wait"} => start = (t.k - 1) * BatchLimit

\* C13: a campaign of N contacts and limit c that is never stopped is
\* dispatched in ceil(N/c) batches, each of c contacts but a possibly smaller
\* last one, in the order of the contact list, and every contact of a batch
\* gets its dispatch attempt (a makeCall) whichever of them fail.
C13_BatchesInOrder ==
    /\ [](\A t \in DOMAIN tasks :
            (t.kind = "batch" /\ t.pc \in {"pop", "length2", "stats.get", "stats.save", "wait"})
                => BatchInOrder(t))
    /\ []((1 \in DOMAIN campaigns /\ campaigns[1].status = "completed")
            => (/\ QueueOf(1) = <<>>
                /\ campaigns[1].currentBatch = (MaxContacts + BatchLimit - 1) \div BatchLimit))
    /\ [][\A t \in DOMAIN tasks :
            (t.kind = "batch" /\ t.pc = "stats.save" /\ t \notin DOMAIN tasks')
                => (/\ MakeCallCount(tasks') = MakeCallCount(tasks) + Len(t.batch)
                    /\ \A i \in 1..Len(t.batch) :
                          \E m \in DOMAIN tasks' :
                              m.kind = "makeCall" /\ m.pc = "get" /\ m.contacts = <<t.batch[i]>>)]_vars

\* the campaign completed after dispatches that failed and dispatches that
\* the provider accepted
C13_Witness ==
    /\ 1 \in DOMAIN campaigns
    /\ campaigns[1].status = "completed"
    /\ "stats.failed" \in DOMAIN campaigns[1]
    /\ DOMAIN issued # {}

\* the number of times x occurs in a sequence
Occurrences(seq, x) == Cardinality({ i \in 1..Len(seq) : seq[i] = x })

\* the dispatches of contact x that are pending in campaign 1: its entries in
\* the queue, in the batches the iterations hold and have not handed to
\* makeCall, and the makeCall functions that have not reached the provider
PendingDispatches(q, ts, x) ==
    LET RECURSIVE Sum(_)
        Sum(S) == IF S = {} THEN 0
                  ELSE LET t == CHOOSE y \in S : TRUE
                       IN  ts[t] * Occurrences(IF t.kind = "batch" THEN t.batch ELSE t.contacts, x)
                           + Sum(S \ {t})
        queued == IF 1 \in DOMAIN q THEN q[1] ELSE <<>>
    IN  Occurrences(queued, x)
        + Sum({ t \in DOMAIN ts :
                  \/ t.kind = "batch" /\ t.pc \in {"pop", "length2", "stats.get", "stats.save"}
                  \/ t.kind = "makeCall" /\ t.pc \in {"get", "provider"} })

\* the suspended function t takes its step
Resumed(t) == t \notin DOMAIN tasks' \/ tasks'[t] < tasks[t]

\* a start request writes the queue of its campaign
QueuePlaced == \E t \in DOMAIN tasks : t.kind = "start" /\ t.pc = "saveQueue" /\ Resumed(t)

\* C14: an entry placed on the queue of a campaign is popped and dispatched
\* at most once: no step but the placing of a queue by a start request adds a
\* pending dispatch of a contact, whatever batch iterations, stop requests and
\* start requests run on the queue.
C14_PoppedOnce ==
    [][~QueuePlaced
          => \A i \in 1..MaxContacts :
                PendingDispatches(queue', tasks', Contact(i))
                    <= PendingDispatches(queue, tasks, Contact(i))]_vars

\* two batch iterations run on the queue of the campaign and each holds a
\* contact it popped
C14_Witness ==
    \E t1, t2 \in DOMAIN tasks :
        /\ t1 # t2
        /\ t1.kind = "batch" /\ t2.kind = "batch"
        /\ t1.cid = t2.cid
        /\ t1.batch # <<>> /\ t2.batch # <<>>

\* C15: a batch iteration that finds at its top the campaign not active or
\* gone ends the loop: it pops no contact, starts no dispatch and schedules no
\* further batch.  A dispatch that was started (makeCall) goes on to the
\* provider, or to the record of its failure.
C15_HaltKeepsDispatches ==
    [][\A t \in DOMAIN tasks :
          /\ (/\ t.kind = "batch" /\ t.pc = "check"
              /\ getCampaign(t.cid).status # "active"
              /\ Resumed(t))
                => (tasks' = Finish(t) /\ queue' = queue /\ timers' = timers)
          /\ (t.kind = "makeCall" /\ t.pc = "get" /\ Resumed(t))
                => \E m \in DOMAIN tasks' :
                      /\ m.kind = "makeCall" /\ m.contacts = t.contacts
                      /\ m.pc \in {"provider", "failed.get"}]_vars

\* C16: a campaign started with a future schedule time dispatches nothing
\* before its timer fires, and when the timer fires executeCampaign makes the
\* campaign active and goes on to drain its queue: the execution the timer
\* starts on a scheduled campaign proceeds to the activation.
C16_ScheduledStartRuns ==
    [][\A t \in DOMAIN tasks :
          (/\ t.kind = "execute" /\ t.pc = "get"
           /\ getCampaign(t.cid) # NoCampaign
           /\ getCampaign(t.cid).status = "scheduled"
           /\ Resumed(t))
             => \E e \in DOMAIN tasks' :
                   e.kind = "execute" /\ e.cid = t.cid /\ e.pc = "activate.get"]_vars

\* the transfer methods a run of conference creation yielded: the method its
\* reply names and the transferMethod of the record it left in the store
ReplyMethods ==
    (IF last.res \in {"call_modification", "sip_transfer_fallback"} THEN {last.res} ELSE {})
    \cup (IF last.id \in DOMAIN conferences /\ conferences[last.id].transferMethod # "none"
          THEN {conferences[last.id].transferMethod} ELSE {})

ConferenceReplied == last.op = "transfer-conference" /\ last.res # "pending"

\* C17: every completed run of conference creation that got as far as a
\* conference id, successful or failed at some later step, yields exactly one
\* transfer method, call_modification or sip_transfer_fallback.
C17_OneTransferMethod ==
    (ConferenceReplied /\ last.id # 0) => Cardinality(ReplyMethods) = 1

\* C18: a run of conference creation that finds no active customer call
\* replies with the SIP transfer instruction, and the conference record in the
\* store carries transferMethod = sip_transfer_fallback.
C18_FallbackRecorded ==
    (ConferenceReplied /\ last.arg.text = "not_found")
        => /\ last.res = "sip_transfer_fallback"
           /\ last.id \in DOMAIN conferences
           /\ conferences[last.id].transferMethod = "sip_transfer_fallback"

\* the connections made for one stream: the first one and its retries
Attempts(root) == { s \in DOMAIN sockets : sockets[s].root = root }

\* C19: a stream is reconnected at most maxRetries times, so at most
\* maxRetries + 1 connections are ever made for it, also when the timeout, the
\* error event and the close event of one connection are all delivered.
C19_RetriesBounded ==
    \A s \in DOMAIN sockets : Cardinality(Attempts(sockets[s].root)) <= maxRetries + 1

\* the connections of a call that are connecting or open
LiveStreams(id) ==
    { s \in DOMAIN sockets : sockets[s].callId = id /\ sockets[s].state \in {"connecting", "open"} }

\* C20: at any time a call has at most one audio-stream connection that is
\* connecting or open.
C20_OneStreamPerCall ==
    \A id \in DOMAIN issued : Cardinality(LiveStreams(id)) <= 1

\* has the registry ever held the call as in-progress
ReachedInProgress(call) ==
    \/ call.status = "in-progress"
    \/ \E i \in DOMAIN call.statusHistory : call.statusHistory[i].to = "in-progress"

\* C21: no audio-stream connection is started for a call that has not reached
\* the status in-progress.
C21_NoStreamBeforeInProgress ==
    [][Len(sockets') > Len(sockets)
          => LET id == sockets'[Len(sockets')].callId
             IN  id \in DOMAIN activeCalls' /\ ReachedInProgress(activeCalls'[id])]_vars

\* the retry timers a step armed
ArmedRetries == { tm \in DOMAIN retryTimers' :
                    tm \notin DOMAIN retryTimers \/ retryTimers'[tm] > retryTimers[tm] }

\* C22: an open resets the retry counter: when a connection that had opened
\* closes abnormally, the retry that is scheduled is the first retry,
\* whatever the attempt number of the connection was.
C22_OpenResetsRetries ==
    [][\A s \in DOMAIN sockets :
          (sockets[s].state = "open" /\ sockets'[s].state = "closed")
              => \A tm \in ArmedRetries : tm.count = 1]_vars

\* the events that report a status transition or a transcript line of a call
TransitionOps ==
    {"status-update", "call-answered", "call-ended", "call-no-answer", "transcript"}

\* C23: a transition event for a call id the registry does not hold creates an
\* entry for that id; the event is not dropped.
C23_UnknownCallCreated ==
    [][(last'.op \in TransitionOps /\ last'.id \notin DOMAIN activeCalls)
          => last'.id \in DOMAIN activeCalls']_vars

\* C24: a call-started event for a call the registry holds as in-progress or
\* terminal (a status of later rank than the one being registered) is
\* ignored: the entry, with its status, transcript, status history and
\* listener count, is unchanged.
C24_LateRegistrationIgnored ==
    [][(/\ last'.op = "call-started"
        /\ last'.id \in DOMAIN activeCalls
        /\ activeCalls[last'.id].status \in {"in-progress"} \cup Terminal)
          => (/\ last'.id \in DOMAIN activeCalls'
              /\ activeCalls'[last'.id].status = activeCalls[last'.id].status
              /\ activeCalls'[last'.id].transcript = activeCalls[last'.id].transcript
              /\ activeCalls'[last'.id].statusHistory = activeCalls[last'.id].statusHistory
              /\ activeCalls'[last'.id].listenerCount = activeCalls[last'.id].listenerCount)]_vars

\* C28: no webhook reporting no-answer (a call-no-answer event, or a
\* status-update or unrecognized event whose status is no-answer) sets the
\* registry status of a call to no-answer when the call has an answered
\* timestamp or a non-empty transcript.
C28_AnsweredNeverNoAnswer ==
    [][(/\ \/ last'.op = "call-no-answer"
           \/ last'.op \in {"status-update", "unrecognized"} /\ last'.arg.status = "no-answer"
        /\ last'.id \in DOMAIN activeCalls
        /\ (activeCalls[last'.id].answeredAt \/ Len(activeCalls[last'.id].transcript) > 0)
        /\ activeCalls[last'.id].status # "no-answer"
        /\ last'.id \in DOMAIN activeCalls')
          => activeCalls'[last'.id].status # "no-answer"]_vars

\* the failed count a campaign record carries under either of its two keys:
\* the field of its stats object, and the key the catch block of makeCall writes
FailedCounts(c) ==
    {c.stats.failed} \cup (IF "stats.failed" \in DOMAIN c THEN {c["stats.failed"]} ELSE {})

\* C29: each failed dispatch of a batch is counted.  When the dispatches of an
\* iteration have all settled, the failed count of the campaign has grown by
\* the number of dispatches that failed: over the iterations so far it is the
\* number of contacts handed to makeCall that the provider did not accept,
\* also when the failures of one batch were handled concurrently.
C29_FailuresCounted ==
    [][\A t \in DOMAIN tasks :
          (t.kind = "batch" /\ t.pc = "wait" /\ t \notin DOMAIN tasks' /\ t.cid \in DOMAIN campaigns')
              => ((t.k - 1) * BatchLimit + Len(t.batch) - Cardinality(DOMAIN issued'))
                    \in FailedCounts(campaigns'[t.cid])]_vars

\* C30: under fair scheduling of the timers and the store operations, a
\* campaign that was started and is never stopped eventually has an empty queue
\* and the status completed, and once it is completed its batch loop schedules
\* no further iteration: no timer of the loop is armed and no iteration runs.
C30_CampaignCompletes ==
    /\ (1 \in DOMAIN campaigns)
          ~> (/\ 1 \in DOMAIN campaigns
              /\ campaigns[1].status = "completed"
              /\ QueueOf(1) = <<>>)
    /\ []((1 \in DOMAIN campaigns /\ campaigns[1].status = "completed")
            => (/\ BatchTimer(1, BatchLimit) \notin timers
                /\ \A t \in DOMAIN tasks : t.kind \notin {"batch", "makeCall"}))

\* the campaign is completed with its queue empty, the last iteration has
\* returned and the timer of the loop is not armed
C30_Witness ==
    /\ 1 \in DOMAIN campaigns
    /\ campaigns[1].status = "completed"
    /\ campaigns[1].currentBatch = (MaxContacts + BatchLimit - 1) \div BatchLimit
    /\ QueueOf(1) = <<>>
    /\ tasks = EmptyMap
    /\ timers = {}

\* a transcript holds a partial entry from the speaker
HoldsPartial(transcript, speaker) ==
    \E i \in 1..Len(transcript) :
        transcript[i].speaker = speaker /\ transcript[i].transcriptType = "partial"

\* C27: a partial transcript event from a speaker replaces the previous
\* partial entry from that speaker in place, the length of the transcript
\* unchanged, whenever the transcript already holds a partial entry from the
\* speaker, also when an entry from another speaker was appended in between;
\* a final transcript event appends one entry.
C27_PartialReplacedInPlace ==
    [][(/\ last'.op = "transcript"
        /\ last'.id \in DOMAIN activeCalls
        /\ last'.id \in DOMAIN activeCalls')
          => LET old == activeCalls[last'.id].transcript
                 new == activeCalls'[last'.id].transcript
                 speaker == IF last'.arg.role = "assistant" THEN "assistant" ELSE "customer"
             IN  /\ (last'.arg.ttype = "partial" /\ HoldsPartial(old, speaker))
                       => Len(new) = Len(old)
                 /\ last'.arg.ttype = "final"
                       => new = Append(old, Entry(speaker, last'.arg.text, "final"))]_vars

\* C25: a conference record reaches the status ended at most once and ended
\* is absorbing: once the record is ended, no step (a webhook of the telephony
\* provider such as participant-join, participant-leave, conference-start or a
\* duplicate conference-end, a write of the transfer route, a request to end
\* the conference) changes its status, and none emits a second
\* conference_ended broadcast for it.
C25_EndedAbsorbing ==
    [][\A c \in DOMAIN conferences :
          conferences[c].status = "ended"
              => (/\ c \in DOMAIN conferences'
                  /\ conferences'[c].status = "ended"
                  /\ "conference_ended" \in bcast' => last'.id # c)]_vars

\* the participant-join of the queue call of conference c was processed: the
\* handler found the record, the call is the record's queue call, and the
\* status agent_connected was written
QueueJoinProcessed(c) ==
    /\ last = Op("updateConferenceData", c,
                 [NoArg EXCEPT !.status = "participant-join", !.role = "queue"], "saved", 0)
    /\ \E t \in DOMAIN tasks : t.kind = "twilio" /\ t.cid = c /\ t.pc = "notify"

\* C26: when a participant-join webhook for the queue call of the human agent
\* is processed, the hold assistant is first told to announce the handoff and
\* its call is terminated after the goodbye window: the call is terminated
\* only by the goodbye timer, the timer is armed only in the step in which the
\* announcement was sent, and the call is eventually terminated.
C26_GoodbyeThenHangup ==
    /\ [][last'.op = "endCall" => Timer("holdGoodbye", last'.id) \in timers]_vars
    /\ [][\A c \in 1..MaxConferences :
            (Timer("holdGoodbye", c) \in timers' /\ Timer("holdGoodbye", c) \notin timers)
                => last' = Op("sendMessage", c, NoArg, "sent", 0)]_vars
    /\ \A c \in 1..MaxConferences :
          QueueJoinProcessed(c) ~> (last = Op("endCall", c, NoArg, "ended", 0))

\* seq is a prefix of longer
IsPrefix(seq, longer) ==
    Len(seq) <= Len(longer) /\ SubSeq(longer, 1, Len(seq)) = seq

\* C33: the status history of a registry entry is append-only for the life
\* of the entry: every step that leaves the entry in the registry (a status
\* update, a transcript event, a re-registration by call-started or by
\* status-update) leaves the previous history as a prefix of the new one.
C33_HistoryAppendOnly ==
    [][\A id \in DOMAIN activeCalls :
          id \in DOMAIN activeCalls'
              => IsPrefix(activeCalls[id].statusHistory, activeCalls'[id].statusHistory)]_vars

\* a handler of a socket ran: a connection changed its state or a retry timer
\* was armed or fired
StreamEvent ==
    /\ last' = Internal
    /\ sockets' # sockets \/ retryTimers' # retryTimers

\* the step in which the retries of a connection chain are exhausted: the
\* last connection allowed times out or fails
RetriesExhausted ==
    \E s \in DOMAIN sockets :
        /\ sockets[s].retryCount = maxRetries
        /\ sockets[s].state # sockets'[s].state
        /\ sockets'[s].state \in {"terminated", "errored"}

\* C35: every audio-stream event of a call (connect timeout, transport
\* error, abnormal close, a scheduled retry, the exhaustion of the retry
\* maximum) leaves the registry as it is, so the call keeps its status and
\* stays in the registry; the exhaustion is reported to the listeners as
\* audio_retry_failed and has no other effect.
C35_StreamEventsKeepCall ==
    [][StreamEvent
          => (/\ activeCalls' = activeCalls
              /\ activeCallsByPhone' = activeCallsByPhone
              /\ timers' = timers
              /\ RetriesExhausted => "audio_retry_failed" \in bcast'
              /\ "audio_retry_failed" \in bcast' => RetriesExhausted)]_vars

\* the retries of a registered call were exhausted and reported, and the call
\* is in the registry with the status call-started gave it
C35_Witness ==
    /\ "audio_retry_failed" \in bcast
    /\ \E s \in DOMAIN sockets :
          /\ sockets[s].retryCount = maxRetries
          /\ sockets[s].state \in {"terminated", "errored"}
          /\ sockets[s].callId \in DOMAIN activeCalls
          /\ activeCalls[sockets[s].callId].status = "started"

\* C37: the delayed cleanup an ended event scheduled (the removal timer and
\* its later re-check) never evicts a call whose status, when the timer
\* fires, is not terminal, for example a call that later events put back to
\* in-progress or ringing.
C37_CleanupSparesLiveCall ==
    [][(/\ last'.op \in {"timer.endedRemoval", "timer.endedRecheck"}
        /\ last'.id \in DOMAIN activeCalls
        /\ activeCalls[last'.id].status \notin Terminal)
          => last'.id \in DOMAIN activeCalls']_vars

\* C36: after a successful add-listener request for a call in the registry
\* the call's listenerCount is one greater than before and hasActiveListeners
\* is true; after a remove-listener request the count is one smaller, and
\* never below 0.
C36_ListenerCounted ==
    [][(/\ last'.op \in {"addListener", "removeListener"}
        /\ last'.res = "200"
        /\ last'.id \in DOMAIN activeCalls
        /\ last'.id \in DOMAIN activeCalls')
          => LET old == activeCalls[last'.id]
                 new == activeCalls'[last'.id]
             IN  IF last'.op = "addListener"
                 THEN /\ new.listenerCount = old.listenerCount + 1
                      /\ new.hasActiveListeners
                 ELSE new.listenerCount = Max(0, old.listenerCount - 1)]_vars

\* the calls of campaign c whose terminal event was recorded
TalliedCalls(c) ==
    { id \in DOMAIN getCampaignCalls(c) : getCampaignCalls(c)[id] = "completed" }

\* C38: two terminal events of two different calls of one campaign are both
\* counted under every interleaving of their handlers: when both handlers
\* have finished, completed + failed has grown by 2 (from 0) and inProgress
\* has gone down by 2, not below 0.
C38_BothEventsCounted ==
    (/\ 1 \in DOMAIN campaigns
     /\ Cardinality(TalliedCalls(1)) = 2
     /\ \A t \in DOMAIN tasks : t.kind # "stat")
        => (/\ campaigns[1].stats.completed + campaigns[1].stats.failed = 2
            /\ campaigns[1].stats.inProgress = 0)

\* C39: a campaign whose status is stopped or completed is never made
\* active again by a later write to its record.
C39_FinishedStaysFinished ==
    [][\A c \in DOMAIN campaigns :
          (campaigns[c].status \in {"stopped", "completed"} /\ c \in DOMAIN campaigns')
              => campaigns'[c].status # "active"]_vars

\* C40: every call id that is a key of the audio-stream map or of the
\* listener map is a key of the active-call map too.
C40_SideMapsWithinActiveCalls ==
    /\ DOMAIN audioStreams \subseteq DOMAIN activeCalls
    /\ callListeners \subseteq DOMAIN activeCalls

\* a call that is registered with a terminal status
TerminalRegistered ==
    \E id \in DOMAIN activeCalls : activeCalls[id].status \in Terminal

\* C31: a call that reached a terminal status is eventually evicted: no call
\* stays in the registry with a terminal status for ever.
C31_TerminalCallEvicted == []<>(~TerminalRegistered)

\* the step of run t that follows its hold-assistant dispatch has been taken
HoldDispatchDone(t) ==
    /\ t.kind = "conference" /\ t.pc = "holdAssistant"
    /\ (t \notin DOMAIN tasks' \/ tasks'[t] < tasks[t])

\* C32: a conference creation whose hold-assistant dispatch fails is not
\* aborted: the run goes on to its remaining steps (the queue dial), and its
\* reply is not the error reply.
C32_FailedStepDoesNotAbort ==
    [][\A t \in DOMAIN tasks :
          HoldDispatchDone(t)
              => /\ \E u \in DOMAIN tasks' : u.kind = "conference" /\ u.cid = t.cid
                 /\ ~(last'.op = "transfer-conference" /\ last'.id = t.cid
                        /\ last'.res \in {"error", "error.fallbackTransfer"})]_vars

\* the participant roles a conference record lists
ParticipantRoles(record) == { record.participants[i] : i \in DOMAIN record.participants }

\* C34: until a conference has ended, no step takes a role out of the
\* participants list of its record.
C34_ParticipantsOnlyGrow ==
    [][\A c \in DOMAIN conferences :
          (c \in DOMAIN conferences' /\ conferences[c].status # "ended")
              => ParticipantRoles(conferences[c]) \subseteq ParticipantRoles(conferences'[c])]_vars

====
